---- MODULE Spec2Model ----
(***************************************************************************)
(* Model of the Lark upload client of testrail_tc_converter                *)
(* (src/src/lark/client.py): LarkAuthManager, LarkTableManager,            *)
(* LarkRecordManager and SimpleLarkClient, together with the remote        *)
(* service they talk to.                                                   *)
(*                                                                         *)
(* Tokens and ids are modelled by TLA+ strings, Python's None by the       *)
(* string "None", an optional datetime by a sequence of length 0 or 1,     *)
(* texts by the sequence of their characters.  An entry                    *)
(* k of an upload list refers to the dict RecordOf(k).  result holds the   *)
(* latest call: ret is a returned string (or None), ok a returned          *)
(* boolean, returned the tuple batch_create_records returned, raised the   *)
(* exception type raised ("None": it returned).                            *)
(***************************************************************************)
EXTENDS Integers, Sequences, FiniteSets, TLC

VARIABLES
    now,                    \* datetime.now(), in seconds
    _tenant_access_token,   \* LarkAuthManager._tenant_access_token
    _token_expire_time,     \* LarkAuthManager._token_expire_time
    _obj_tokens,            \* LarkTableManager._obj_tokens (wiki_token -> obj_token)
    wiki_token,             \* SimpleLarkClient.wiki_token
    table_id,               \* SimpleLarkClient.table_id
    _obj_token,             \* SimpleLarkClient._obj_token
    pc,                     \* position of the caller: "idle", or "chunk" inside an upload
    records_data,           \* batch_create_records: the list being uploaded
    i,                      \* batch_create_records: loop index (start of the next chunk)
    success_ids,            \* batch_create_records: local success_ids
    error_messages,         \* batch_create_records: local error_messages
    outcomes,               \* per loop iteration: its start, the chunk sent, the answer
    wire,                   \* the network requests of the latest step, with their answers
    result,                 \* the latest call: its arguments and what it returned or raised
    threads,                \* per thread using the managers: its call and position in it
    _token_lock,            \* LarkAuthManager._token_lock: "free" or the thread holding it
    issued,                 \* the network requests issued by the threads, in order
    input,                  \* the document or text handed to the parser or the cleaner
    calls,                  \* the parser / cleaner calls made on it, with what they returned
    flow                    \* multi_file_conversion_flow: its position and its locals

vars == << now, _tenant_access_token, _token_expire_time, _obj_tokens, wiki_token,
           table_id, _obj_token, pc, records_data, i, success_ids, error_messages,
           outcomes, wire, result, threads, _token_lock, issued, input, calls,
           flow >>

authVars == << _tenant_access_token, _token_expire_time >>
clientVars == << wiki_token, table_id, _obj_token >>
batchVars == << records_data, i, success_ids, error_messages, outcomes >>
threadVars == << threads, _token_lock, issued >>
parserVars == << input, calls, flow >>
uploadVars == << wiki_token, table_id, _obj_token, pc, records_data, i, success_ids,
                 error_messages, outcomes, wire, result >>

----------------------------------------------------------------------------
(* Bounds of the model *)

MaxTime == 2            \* the clock runs from 0 to MaxTime
MaxExtra == 1           \* declared token lifetimes reach RefreshMargin + MaxExtra
MaxRecords == 1501      \* the longest upload list

(* Program constants *)

RefreshMargin == 300    \* a token is refreshed this many seconds before its expiry
DefaultExpire == 7200   \* lifetime assumed when the answer declares none
max_batch_size == 500   \* records per batch_create request
ShownErrors == 3        \* chunk errors quoted in the aggregated exception

None == "None"
Tokens == {"t1"}
Wikis == {"w1", "w2"}
Tables == {"tbl1"}
Lifetimes == RefreshMargin .. (RefreshMargin + MaxExtra)

\* the durable table handle the service holds for a wiki node
ObjTokenOf(w) == IF w = "w1" THEN "o1" ELSE "o2"

Min(a, b) == IF a <= b THEN a ELSE b

----------------------------------------------------------------------------
(* The remote service: the answers a request can meet.  raises = the       *)
(* transport raised (timeout, connection error); status = HTTP status;     *)
(* code = the result code of the JSON body; data = the payload, << >>      *)
(* when the body lacks the key the client reads.                           *)

FailedResponses ==
    { [raises |-> TRUE,  status |-> 0,   code |-> 0,  data |-> << >>],
      [raises |-> FALSE, status |-> 500, code |-> 0,  data |-> << >>],
      [raises |-> FALSE, status |-> 200, code |-> 99, data |-> << >>] }

Answer(data) == [raises |-> FALSE, status |-> 200, code |-> 0, data |-> << data >>]
NoData == [raises |-> FALSE, status |-> 200, code |-> 0, data |-> << >>]

\* credential exchange: the token and its declared lifetime (<<>>: none declared)
ExchangeResponses ==
    FailedResponses \cup { NoData } \cup
    { Answer([tenant_access_token |-> t, expire |-> e]) :
         t \in Tokens, e \in {<<>>} \cup { <<l>> : l \in Lifetimes } }

\* node lookup of wiki token w
LookupResponses(w) ==
    FailedResponses \cup { NoData, Answer([obj_token |-> ObjTokenOf(w)]) }

\* field list read
FieldsResponses == FailedResponses \cup { Answer([items |-> "some"]) }

\* batch insert: the rows of the answer carry a record_id each ("full"), or
\* all but the first do ("partial")
InsertResponses ==
    FailedResponses \cup { Answer([rows |-> "full"]), Answer([rows |-> "partial"]) }

Request(req, arg, resp) == [req |-> req, arg |-> arg, resp |-> resp]

----------------------------------------------------------------------------
(* LarkAuthManager *)

AuthState == [token |-> _tenant_access_token, expire |-> _token_expire_time]

\* TokenFresh with the expiry instant itself still counted as valid
TokenFreshInclusive(a, t) ==
    /\ a.token # None
    /\ a.expire # <<>>
    /\ t <= a.expire[1]

\* the cache test of get_tenant_access_token and is_token_valid at time t
TokenFresh(a, t) ==
    /\ a.token # None
    /\ a.expire # <<>>
    /\ t < a.expire[1]

is_token_valid == TokenFresh(AuthState, now)

\* what the answer of one credential exchange makes of the cache a at time t:
\* the returned token and the new cache
ExchangeResult(a, t, resp) ==
    IF resp.raises THEN [ret |-> None, auth |-> a]
    ELSE IF resp.status # 200 THEN [ret |-> None, auth |-> a]
    ELSE IF resp.code # 0 THEN [ret |-> None, auth |-> a]
    ELSE IF resp.data = << >> THEN [ret |-> None, auth |-> a]        \* KeyError
    ELSE LET expire_seconds == IF resp.data[1].expire = <<>> THEN DefaultExpire
                               ELSE resp.data[1].expire[1]
         IN  [ret  |-> resp.data[1].tenant_access_token,
              auth |-> [token  |-> resp.data[1].tenant_access_token,
                        expire |-> << t + (expire_seconds - RefreshMargin) >>]]

\* get_tenant_access_token(force_refresh): every outcome [ret, auth, wire]
get_tenant_access_token(a, force_refresh) ==
    IF ~force_refresh /\ TokenFresh(a, now)
    THEN { [ret |-> a.token, auth |-> a, wire |-> <<>>] }
    ELSE { [ret  |-> ExchangeResult(a, now, resp).ret,
            auth |-> ExchangeResult(a, now, resp).auth,
            wire |-> << Request("exchange", "", resp) >>] : resp \in ExchangeResponses }

----------------------------------------------------------------------------
(* LarkTableManager *)

\* LookupResult remembering a refused lookup as an absent handle
LookupResultCachingFailure(cache, w, resp) ==
    IF resp.raises THEN [ret |-> None, cache |-> cache]
    ELSE IF resp.status # 200 THEN [ret |-> None, cache |-> cache]
    ELSE IF resp.code # 0 \/ resp.data = << >>
    THEN [ret |-> None,
          cache |-> [x \in DOMAIN cache \cup {w} |-> IF x = w THEN None ELSE cache[x]]]
    ELSE [ret   |-> resp.data[1].obj_token,
          cache |-> [x \in DOMAIN cache \cup {w} |->
                        IF x = w THEN resp.data[1].obj_token ELSE cache[x]]]

\* the part of get_obj_token that reads the answer: the handle returned and
\* the new cache
LookupResult(cache, w, resp) ==
    IF resp.raises THEN [ret |-> None, cache |-> cache]
    ELSE IF resp.status # 200 THEN [ret |-> None, cache |-> cache]
    ELSE IF resp.code # 0 THEN [ret |-> None, cache |-> cache]
    ELSE IF resp.data = << >> THEN [ret |-> None, cache |-> cache]   \* KeyError
    ELSE [ret   |-> resp.data[1].obj_token,
          cache |-> [x \in DOMAIN cache \cup {w} |->
                        IF x = w THEN resp.data[1].obj_token ELSE cache[x]]]

\* get_obj_token without the cache test: every call looks the token up
get_obj_token_uncached(a, cache, w) ==
    UNION {
      IF t.ret = None
      THEN { [ret |-> None, auth |-> t.auth, cache |-> cache, wire |-> t.wire] }
      ELSE { [ret   |-> LookupResult(cache, w, resp).ret,
              auth  |-> t.auth,
              cache |-> LookupResult(cache, w, resp).cache,
              wire  |-> Append(t.wire, Request("lookup", w, resp))]
             : resp \in LookupResponses(w) }
      : t \in get_tenant_access_token(a, FALSE) }

\* LarkTableManager.get_obj_token(wiki_token): every outcome [ret, auth, cache, wire]
get_obj_token(a, cache, w) ==
    IF w \in DOMAIN cache
    THEN { [ret |-> cache[w], auth |-> a, cache |-> cache, wire |-> <<>>] }
    ELSE UNION {
           IF t.ret = None
           THEN { [ret |-> None, auth |-> t.auth, cache |-> cache, wire |-> t.wire] }
           ELSE { [ret   |-> LookupResult(cache, w, resp).ret,
                   auth  |-> t.auth,
                   cache |-> LookupResult(cache, w, resp).cache,
                   wire  |-> Append(t.wire, Request("lookup", w, resp))]
                  : resp \in LookupResponses(w) }
           : t \in get_tenant_access_token(a, FALSE) }

----------------------------------------------------------------------------
(* SimpleLarkClient *)

Empty(s) == s = None \/ s = ""      \* not s

\* client_get_obj_token testing self._obj_token before its argument
client_get_obj_token_cached_first(a, cache, obj, own, w) ==
    IF ~Empty(obj)
    THEN { [ret |-> obj, auth |-> a, cache |-> cache, obj |-> obj, wire |-> <<>>] }
    ELSE IF ~Empty(w)
    THEN { [ret |-> o.ret, auth |-> o.auth, cache |-> o.cache, obj |-> obj,
            wire |-> o.wire] : o \in get_obj_token(a, cache, w) }
    ELSE IF ~Empty(own)
    THEN { [ret |-> o.ret, auth |-> o.auth, cache |-> o.cache,
            obj |-> IF o.ret # None THEN o.ret ELSE obj,
            wire |-> o.wire] : o \in get_obj_token(a, cache, own) }
    ELSE { [ret |-> None, auth |-> a, cache |-> cache, obj |-> obj, wire |-> <<>>] }

\* _get_obj_token(wiki_token) with self._obj_token = obj and self.wiki_token = own:
\* every outcome [ret, auth, cache, obj, wire]; obj is self._obj_token afterwards
client_get_obj_token(a, cache, obj, own, w) ==
    IF ~Empty(w)
    THEN { [ret |-> o.ret, auth |-> o.auth, cache |-> o.cache, obj |-> obj,
            wire |-> o.wire] : o \in get_obj_token(a, cache, w) }
    ELSE IF ~Empty(obj)
    THEN { [ret |-> obj, auth |-> a, cache |-> cache, obj |-> obj, wire |-> <<>>] }
    ELSE IF ~Empty(own)
    THEN { [ret |-> o.ret, auth |-> o.auth, cache |-> o.cache,
            obj |-> IF o.ret # None THEN o.ret ELSE obj,
            wire |-> o.wire] : o \in get_obj_token(a, cache, own) }
    ELSE { [ret |-> None, auth |-> a, cache |-> cache, obj |-> obj, wire |-> <<>>] }

\* "if not self._obj_token: self._obj_token = self._get_obj_token(self.wiki_token)"
\* of test_connection and batch_create_records: every outcome, ret being
\* self._obj_token afterwards
EnsureObjToken(a) ==
    IF Empty(_obj_token)
    THEN client_get_obj_token(a, _obj_tokens, _obj_token, wiki_token, wiki_token)
    ELSE { [ret |-> _obj_token, auth |-> a, cache |-> _obj_tokens, obj |-> _obj_token,
            wire |-> << >>] }

\* FieldsReadOk accepting any answer of status 200
FieldsReadOkIgnoringCode(resp) == ~resp.raises /\ resp.status = 200

\* test_connection's reading of the field-list answer
FieldsReadOk(resp) == ~resp.raises /\ resp.status = 200 /\ resp.code = 0

\* the threads of the process, and a thread that is in no call of a manager
Threads == {"A", "B"}
NotCalling == [pc |-> "idle", op |-> "none", wiki |-> "", ret |-> None]

\* multi_file_conversion_flow has not been called
NoFlow == [pc |-> "none"]

\* the state after construction, but for the parser's input
Constructed ==
    /\ flow = NoFlow
    /\ now = 0
    /\ _tenant_access_token = None
    /\ _token_expire_time = <<>>
    /\ _obj_tokens = << >>
    /\ wiki_token = None
    /\ table_id = None
    /\ _obj_token = None
    /\ pc = "idle"
    /\ records_data = << >>
    /\ i = 0
    /\ success_ids = << >>
    /\ error_messages = << >>
    /\ outcomes = << >>
    /\ wire = << >>
    /\ result = [op |-> "init"]
    /\ threads = [ t \in Threads |-> NotCalling ]
    /\ _token_lock = "free"
    /\ issued = << >>
    /\ calls = << >>

Init == Constructed /\ input = << >>

\* time passes between two calls, or between two requests of an upload
Tick ==
    /\ now < MaxTime
    /\ now' = now + 1
    /\ wire' = << >>
    /\ UNCHANGED << authVars, _obj_tokens, clientVars, pc, batchVars, result >>
    /\ UNCHANGED << threadVars, parserVars >>

\* a caller asks the auth manager for a token
GetTenantAccessToken ==
    /\ pc = "idle"
    /\ \E force_refresh \in BOOLEAN :
       \E t \in get_tenant_access_token(AuthState, force_refresh) :
          /\ _tenant_access_token' = t.auth.token
          /\ _token_expire_time' = t.auth.expire
          /\ wire' = t.wire
          /\ result' = [op |-> "get_tenant_access_token", force |-> force_refresh,
                        ret |-> t.ret, raised |-> None]
    /\ UNCHANGED << now, _obj_tokens, clientVars, pc, batchVars >>
    /\ UNCHANGED << threadVars, parserVars >>

\* a caller asks the table manager for the handle of a wiki token
GetObjToken ==
    /\ pc = "idle"
    /\ \E w \in Wikis :
       \E o \in get_obj_token(AuthState, _obj_tokens, w) :
          /\ _tenant_access_token' = o.auth.token
          /\ _token_expire_time' = o.auth.expire
          /\ _obj_tokens' = o.cache
          /\ wire' = o.wire
          /\ result' = [op |-> "get_obj_token", wiki |-> w, ret |-> o.ret, raised |-> None]
    /\ UNCHANGED << now, clientVars, pc, batchVars >>
    /\ UNCHANGED << threadVars, parserVars >>

\* SimpleLarkClient.set_table_info(wiki_token, table_id)
SetTableInfoOf(w, t) ==
    /\ pc = "idle"
    /\ IF Empty(w) \/ Empty(t)
       THEN /\ result' = [op |-> "set_table_info", wiki |-> w, table |-> t,
                          ok |-> FALSE, raised |-> "ValueError"]
            /\ wire' = << >>
            /\ UNCHANGED << authVars, _obj_tokens, clientVars >>
       ELSE \E o \in client_get_obj_token(AuthState, _obj_tokens, _obj_token, w, w) :
            /\ wiki_token' = w
            /\ table_id' = t
            /\ _obj_token' = o.ret
            /\ _tenant_access_token' = o.auth.token
            /\ _token_expire_time' = o.auth.expire
            /\ _obj_tokens' = o.cache
            /\ wire' = o.wire
            /\ result' = [op |-> "set_table_info", wiki |-> w, table |-> t,
                          ok |-> (o.ret # None), raised |-> None]
    /\ UNCHANGED << now, pc, batchVars >>
    /\ UNCHANGED << threadVars, parserVars >>

SetTableInfo == \E w \in Wikis \cup {""}, t \in Tables \cup {""} : SetTableInfoOf(w, t)

\* SimpleLarkClient.test_connection()
TestConnection ==
    /\ pc = "idle"
    /\ IF Empty(wiki_token) \/ Empty(table_id)
       THEN /\ result' = [op |-> "test_connection", ok |-> FALSE, raised |-> "ValueError"]
            /\ wire' = << >>
            /\ UNCHANGED << authVars, _obj_tokens, clientVars >>
       ELSE \E t \in get_tenant_access_token(AuthState, FALSE) :
            IF t.ret = None
            THEN /\ _tenant_access_token' = t.auth.token
                 /\ _token_expire_time' = t.auth.expire
                 /\ wire' = t.wire
                 /\ result' = [op |-> "test_connection", ok |-> FALSE, raised |-> None]
                 /\ UNCHANGED << _obj_tokens, clientVars >>
            ELSE \E o \in EnsureObjToken(t.auth) :
                 /\ _tenant_access_token' = o.auth.token
                 /\ _token_expire_time' = o.auth.expire
                 /\ _obj_tokens' = o.cache
                 /\ _obj_token' = o.ret
                 /\ UNCHANGED << wiki_token, table_id >>
                 /\ IF o.ret = None
                    THEN /\ wire' = t.wire \o o.wire
                         /\ result' = [op |-> "test_connection", ok |-> FALSE,
                                       raised |-> None]
                    ELSE \E resp \in FieldsResponses :
                         /\ wire' = (t.wire \o o.wire)
                                       \o << Request("fields", o.ret, resp) >>
                         /\ result' = [op |-> "test_connection",
                                       ok |-> FieldsReadOk(resp), raised |-> None]
    /\ UNCHANGED << now, pc, batchVars >>
    /\ UNCHANGED << threadVars, parserVars >>

----------------------------------------------------------------------------
(* Texts.  A text is the sequence of its characters; str.strip() removes   *)
(* the white space at both ends.                                           *)

WhiteSpace == {" "}

RECURSIVE lstrip(_)
lstrip(s) == IF s # << >> /\ Head(s) \in WhiteSpace THEN lstrip(Tail(s)) ELSE s

RECURSIVE rstrip(_)
rstrip(s) == IF s # << >> /\ s[Len(s)] \in WhiteSpace
             THEN rstrip(SubSeq(s, 1, Len(s) - 1)) ELSE s

strip(s) == rstrip(lstrip(s))

----------------------------------------------------------------------------
(* Records.  A field value carries its Python type and its str() form:     *)
(* a string, None, or an integer.  RecordOf(k) is the dict a list entry k  *)
(* of an upload refers to: k > 0 is a complete record (its texts are       *)
(* numbered k), the others are defective.                                  *)

RequiredFields ==
    {"test_case_number", "title", "priority", "precondition", "steps", "expected_result"}
CriticalFields == {"test_case_number", "title", "steps", "expected_result"}

Str(text) == [type |-> "str", text |-> text]
NoneValue == [type |-> "NoneType", text |-> << "N", "o", "n", "e" >>]
IntValue(digits) == [type |-> "int", text |-> digits]

str(v) == v.text

\* not v
Falsy(v) ==
    \/ v.type = "NoneType"
    \/ v.type = "str" /\ v.text = << >>
    \/ v.type = "int" /\ v.text = << "0" >>
\* not str(v).strip()
StripEmpty(v) == strip(str(v)) = << >>

Numbered(k) == Str(<< ToString(k) >>)
Blank == Str(<< " " >>)
RecordOf(k) ==
    IF k > 0 THEN [test_case_number |-> Numbered(k), title |-> Numbered(k),
                   priority |-> Str(<< "H", "i", "g", "h" >>),
                   precondition |-> Str(<< >>), steps |-> Numbered(k),
                   expected_result |-> Numbered(k)]
    ELSE IF k = 0 THEN [test_case_number |-> Str(<< >>), title |-> Numbered(1),
                        priority |-> Str(<< "H", "i", "g", "h" >>)]
    ELSE IF k = -1 THEN [test_case_number |-> Numbered(1), title |-> Numbered(1),
                         priority |-> Str(<< "H", "i", "g", "h" >>),
                         precondition |-> Str(<< >>), steps |-> Blank,
                         expected_result |-> Numbered(1)]
    ELSE [test_case_number |-> Numbered(1), title |-> Numbered(1),
          priority |-> Str(<< "H", "i", "g", "h" >>),
          precondition |-> Str(<< >>), steps |-> Numbered(1),
          expected_result |-> NoneValue]

DefectiveRefs == {0, -1, -2}

\* _validate_record_format without the test of str(value).strip()
_validate_record_format_unstripped(record) ==
    /\ \A field \in RequiredFields : field \in DOMAIN record
    /\ \A field \in CriticalFields : ~Falsy(record[field])

\* SimpleLarkClient._validate_record_format(record)
_validate_record_format(record) ==
    /\ \A field \in RequiredFields : field \in DOMAIN record
    /\ \A field \in CriticalFields : ~(Falsy(record[field]) \/ StripEmpty(record[field]))

\* the renaming of a record's keys to the table's column labels
lark_record(record) ==
    [ f \in {"Test Case Number", "Title", "Priority", "Precondition", "Steps",
             "Expected Result"} |->
        CASE f = "Test Case Number" -> record.test_case_number
          [] f = "Title"            -> record.title
          [] f = "Priority"         -> record.priority
          [] f = "Precondition"     -> record.precondition
          [] f = "Steps"            -> record.steps
          [] f = "Expected Result"  -> record.expected_result ]

\* the validation loop of batch_create_records: the 1-based position of the
\* first record that fails _validate_record_format, 0 when all pass
FirstInvalid(records) ==
    LET bad == { j \in 1..Len(records) : ~_validate_record_format(RecordOf(records[j])) }
    IN  IF bad = {} THEN 0 ELSE CHOOSE j \in bad : \A m \in bad : j <= m

\* the record_id values of the rows of a 200/0 answer to chunk batch_data;
\* 0 is a row without record_id.  The service numbers the row of entry k as k.
ResponseRows(batch_data, rows) ==
    [ j \in 1..Len(batch_data) |->
        IF rows = "partial" /\ j = 1 THEN 0 ELSE batch_data[j] ]

Truthy(id) == id # 0

\* ChunkResult taking a non-zero result code for an answer without rows
ChunkResultIgnoringCode(batch_data, resp) ==
    IF resp.raises THEN [ok |-> FALSE, ids |-> << >>, msg |-> "exception"]
    ELSE IF resp.status # 200 THEN [ok |-> FALSE, ids |-> << >>, msg |-> "http"]
    ELSE IF resp.code # 0 THEN [ok |-> TRUE, ids |-> << >>, msg |-> ""]
    ELSE [ok |-> TRUE, msg |-> "",
          ids |-> SelectSeq(ResponseRows(batch_data, resp.data[1].rows), Truthy)]

\* one iteration of the loop of LarkRecordManager.batch_create_records, from the
\* answer to the request on: [ok, ids, msg]
ChunkResult(batch_data, resp) ==
    IF resp.raises THEN [ok |-> FALSE, ids |-> << >>, msg |-> "exception"]
    ELSE IF resp.status # 200 THEN [ok |-> FALSE, ids |-> << >>, msg |-> "http"]
    ELSE IF resp.code # 0 THEN [ok |-> FALSE, ids |-> << >>, msg |-> "api"]
    ELSE [ok |-> TRUE, msg |-> "",
          ids |-> SelectSeq(ResponseRows(batch_data, resp.data[1].rows), Truthy)]

\* BatchData with the slice one record short
BatchDataShort(records, start) ==
    SubSeq(records, start + 1, Min(start + max_batch_size - 1, Len(records)))

\* the chunk records_data[i : i + max_batch_size]
BatchData(records, start) ==
    SubSeq(records, start + 1, Min(start + max_batch_size, Len(records)))

\* NextStart leaving the loop at the first failed chunk
NextStartBreaking(start, failed, n) == IF failed THEN n ELSE start + max_batch_size

\* range(0, len(records_data), max_batch_size): the start after start
NextStart(start, failed, n) == start + max_batch_size

\* ErrorSummary quoting every message and never noting a rest
ErrorSummaryUncut(messages) == [ shown |-> messages, more |-> 0 ]

\* the message of the LarkAPIError raised for a failed upload: the messages
\* quoted and the number of those left out (0: no such note)
ErrorSummary(messages) ==
    [ shown |-> SubSeq(messages, 1, Min(ShownErrors, Len(messages))),
      more  |-> IF Len(messages) > ShownErrors THEN Len(messages) - ShownErrors ELSE 0 ]

\* SimpleLarkClient.batch_create_records(records), up to the first request of
\* the record manager
BatchStart(records) ==
    /\ pc = "idle"
    /\ LET call == [op |-> "batch_create_records", records |-> records]
           invalid == FirstInvalid(records)
       IN
       IF Empty(wiki_token) \/ Empty(table_id)
       THEN /\ result' = call @@
                         [returned |-> << >>, raised |-> "ValueError", msg |-> "no table info"]
            /\ wire' = << >>
            /\ UNCHANGED << authVars, _obj_tokens, clientVars, pc, batchVars >>
       ELSE IF records = << >>
       THEN /\ result' = call @@
                         [returned |-> << >>, raised |-> "ValueError", msg |-> "empty list"]
            /\ wire' = << >>
            /\ UNCHANGED << authVars, _obj_tokens, clientVars, pc, batchVars >>
       ELSE \E o \in EnsureObjToken(AuthState) :
            /\ _tenant_access_token' = o.auth.token
            /\ _token_expire_time' = o.auth.expire
            /\ _obj_tokens' = o.cache
            /\ _obj_token' = o.ret
            /\ UNCHANGED << wiki_token, table_id >>
            /\ wire' = o.wire
            /\ IF o.ret = None
               THEN /\ result' = call @@ [returned |-> << >>, raised |-> "LarkAPIError",
                                          msg |-> "no obj token"]
                    /\ UNCHANGED << pc, batchVars >>
               ELSE IF invalid # 0
               THEN /\ result' = call @@ [returned |-> << >>, raised |-> "ValueError",
                                          msg |-> "record", position |-> invalid]
                    /\ UNCHANGED << pc, batchVars >>
               ELSE /\ pc' = "chunk"
                    /\ records_data' = records
                    /\ i' = 0
                    /\ success_ids' = << >>
                    /\ error_messages' = << >>
                    /\ outcomes' = << >>
                    /\ result' = call @@ [returned |-> << >>, raised |-> None,
                                          msg |-> "running"]
    /\ UNCHANGED now
    /\ UNCHANGED << threadVars, parserVars >>

\* one iteration of the chunk loop of LarkRecordManager.batch_create_records
BatchChunk ==
    /\ pc = "chunk"
    /\ i < Len(records_data)
    /\ LET batch_data == BatchData(records_data, i) IN
       \E t \in get_tenant_access_token(AuthState, FALSE) :
          /\ _tenant_access_token' = t.auth.token
          /\ _token_expire_time' = t.auth.expire
          /\ IF t.ret = None
             THEN /\ error_messages' = Append(error_messages, "token")
                  /\ outcomes' = Append(outcomes,
                                   [start |-> i, sent |-> FALSE, batch |-> << >>,
                                    resp |-> NoData])
                  /\ wire' = t.wire
                  /\ i' = NextStart(i, TRUE, Len(records_data))
                  /\ UNCHANGED success_ids
             ELSE \E resp \in InsertResponses :
                  LET r == ChunkResult(batch_data, resp) IN
                  /\ outcomes' = Append(outcomes,
                                   [start |-> i, sent |-> TRUE, batch |-> batch_data,
                                    resp |-> resp])
                  /\ wire' = Append(t.wire, Request("insert", _obj_token, resp))
                  /\ success_ids' = success_ids \o r.ids
                  /\ error_messages' = IF r.ok THEN error_messages
                                       ELSE Append(error_messages, r.msg)
                  /\ i' = NextStart(i, ~r.ok, Len(records_data))
    /\ UNCHANGED << now, _obj_tokens, clientVars, pc, records_data, result >>
    /\ UNCHANGED << threadVars, parserVars >>

\* what LarkRecordManager.batch_create_records returns once the loop has ended
RecordManagerReturn(ids, messages) ==
    [overall_success |-> Len(messages) = 0, success_ids |-> ids,
     error_messages |-> messages]

\* what the caller of SimpleLarkClient.batch_create_records gets from that:
\* the exception raised carries its message only
BatchOutcome(ids, messages) ==
    LET r == RecordManagerReturn(ids, messages) IN
    IF r.error_messages # << >>
    THEN [returned |-> << >>, raised |-> "LarkAPIError", msg |-> "upload failed",
          summary |-> ErrorSummary(r.error_messages)]
    ELSE [returned |-> << r.overall_success, r.success_ids >>, raised |-> None,
          msg |-> "done"]

\* the end of the loop: the record manager returns and the client returns or raises
BatchFinish ==
    /\ pc = "chunk"
    /\ i >= Len(records_data)
    /\ result' = [op |-> "batch_create_records", records |-> result.records]
                    @@ BatchOutcome(success_ids, error_messages)
    /\ pc' = "idle"
    /\ wire' = << >>
    /\ records_data' = << >>
    /\ i' = 0
    /\ success_ids' = << >>
    /\ error_messages' = << >>
    /\ outcomes' = << >>
    /\ UNCHANGED << now, authVars, _obj_tokens, clientVars >>
    /\ UNCHANGED << threadVars, parserVars >>

\* the lists a caller uploads: n records, the one at position bad (if any)
\* replaced by the defective record ref
UploadList(n, bad, ref) == [ j \in 1..n |-> IF j = bad THEN ref ELSE j ]

SmallLists ==
    { UploadList(n, bad, ref) : n \in 0..2, bad \in 0..2, ref \in DefectiveRefs }

Sizes == {1, max_batch_size, max_batch_size + 1, 600, MaxRecords}

LargeLists ==
    { UploadList(n, 0, 0) : n \in Sizes }
    \cup { UploadList(n, n, ref) : n \in {1, 600}, ref \in DefectiveRefs }

BatchCreateRecords == \E records \in SmallLists : BatchStart(records)
UploadRecords == \E records \in LargeLists : BatchStart(records)

Next == \/ Tick
        \/ GetTenantAccessToken
        \/ GetObjToken
        \/ SetTableInfo
        \/ TestConnection
        \/ BatchCreateRecords
        \/ BatchChunk
        \/ BatchFinish

Spec == Init /\ [][Next]_vars

\* one upload of a long list to the table of wiki token w1
SetTable == result.op # "batch_create_records" /\ SetTableInfoOf("w1", "tbl1")
Upload == result.op # "batch_create_records" /\ UploadRecords

NextUpload == SetTable \/ Upload \/ BatchChunk \/ BatchFinish

SpecUpload == Init /\ [][NextUpload]_vars
----------------------------------------------------------------------------
(* Properties of the chunked upload (checked under SpecUpload)             *)

CeilDiv(n, d) == (n + d - 1) \div d

RECURSIVE Flatten(_)
Flatten(ss) == IF ss = << >> THEN << >> ELSE Head(ss) \o Flatten(Tail(ss))

IsSent(o) == o.sent
\* the chunks the service received, in the order of their requests
Posted == LET sent == SelectSeq(outcomes, IsSent)
          IN  [ k \in 1..Len(sent) |-> sent[k].batch ]

\* the iteration ended in a failure: no token, a transport exception, a
\* non-200 status or a non-zero result code
ChunkFailed(o) ==
    \/ ~o.sent
    \/ o.resp.raises
    \/ o.resp.status # 200
    \/ o.resp.code # 0

\* the identifiers the answer of a successful iteration carries
ReturnedIds(o) == SelectSeq(ResponseRows(o.batch, o.resp.data[1].rows), Truthy)

RECURSIVE IdsOfSuccessful(_)
IdsOfSuccessful(os) ==
    IF os = << >> THEN << >>
    ELSE (IF ChunkFailed(Head(os)) THEN << >> ELSE ReturnedIds(Head(os)))
            \o IdsOfSuccessful(Tail(os))

FailedChunks == { k \in 1..Len(outcomes) : ChunkFailed(outcomes[k]) }

LoopEnded == pc = "chunk" /\ i >= Len(records_data)

\* C1: with a token available for every chunk, the list is sent as consecutive
\* chunks of exactly max_batch_size records (the last one holding the rest), in
\* order, one insert request per chunk: ceil(n / max_batch_size) requests in
\* all (2 for 600 records), whose concatenation is the list.
C1_ChunksPartitionTheList ==
    (pc = "chunk" /\ \A k \in 1..Len(outcomes) : outcomes[k].sent) =>
        LET n == Len(records_data)
            last == CeilDiv(n, max_batch_size)
        IN  /\ \A k \in 1..Len(Posted) :
                  Len(Posted[k]) = IF k < last THEN max_batch_size
                                   ELSE n - (last - 1) * max_batch_size
            /\ Flatten(Posted) = SubSeq(records_data, 1, Min(i, n))
            /\ i >= n => /\ Len(Posted) = last
                         /\ Flatten(Posted) = records_data
                         /\ (n = 600 => Len(Posted) = 2)

C1_Witness ==
    /\ LoopEnded
    /\ Len(records_data) = 600
    /\ Len(Posted) = 2
    /\ Len(Posted[1]) = 500 /\ Len(Posted[2]) = 100

\* C2: every chunk is handled exactly once and in order, whatever happened to
\* the chunks before it: iteration k starts at (k - 1) * max_batch_size, the
\* next start follows the last handled chunk, at most one insert request is
\* made per iteration, and the loop ends after ceil(n / max_batch_size)
\* iterations.
C2_EveryChunkOnceInOrder ==
    pc = "chunk" =>
        /\ \A k \in 1..Len(outcomes) :
              /\ outcomes[k].start = (k - 1) * max_batch_size
              /\ outcomes[k].sent =>
                    outcomes[k].batch =
                       SubSeq(records_data, outcomes[k].start + 1,
                              Min(outcomes[k].start + max_batch_size, Len(records_data)))
        /\ i = Len(outcomes) * max_batch_size
        /\ Len(outcomes) <= CeilDiv(Len(records_data), max_batch_size)
        /\ LoopEnded => Len(outcomes) = CeilDiv(Len(records_data), max_batch_size)
        /\ Cardinality({ k \in 1..Len(wire) : wire[k].req = "insert" }) <= 1

C2_Witness ==
    /\ pc = "chunk"
    /\ Len(outcomes) >= 3
    /\ ~outcomes[1].sent
    /\ outcomes[2].sent /\ outcomes[2].resp.code # 0
    /\ outcomes[3].sent /\ ~ChunkFailed(outcomes[3])

\* C3: what the record manager returns: success_ids is the concatenation, in
\* chunk order, of the identifiers returned by the successful chunks;
\* error_messages has one entry per failed chunk; overall_success holds iff
\* there is none.  For 600 records whose second chunk meets a non-zero code:
\* not overall_success, the 500 identifiers of chunk 1, one error.
C3_Aggregation ==
    pc = "chunk" =>
        LET r == RecordManagerReturn(success_ids, error_messages) IN
        /\ r.success_ids = IdsOfSuccessful(outcomes)
        /\ Len(r.error_messages) = Cardinality(FailedChunks)
        /\ r.overall_success <=> FailedChunks = {}
        /\ ( /\ LoopEnded
             /\ Len(records_data) = 600
             /\ ~ChunkFailed(outcomes[1]) /\ outcomes[1].resp.data = << [rows |-> "full"] >>
             /\ outcomes[2].sent /\ outcomes[2].resp.code # 0 )
           => /\ ~r.overall_success
              /\ r.success_ids = SubSeq(records_data, 1, 500)
              /\ Len(r.error_messages) = 1

C3_Witness ==
    /\ LoopEnded
    /\ Len(records_data) = 600
    /\ ~ChunkFailed(outcomes[1]) /\ outcomes[1].resp.data = << [rows |-> "full"] >>
    /\ outcomes[2].sent /\ outcomes[2].resp.code # 0
    /\ Len(success_ids) = 500
    /\ error_messages = << "api" >>

\* a step that ends a call of SimpleLarkClient.batch_create_records
EndsBatchCall == result'.op = "batch_create_records" /\ pc' = "idle" /\ now' = now

\* C4 as stated: batch_create_records raises LarkAPIError exactly when at
\* least one chunk failed.
C4_RaisesExactlyOnChunkFailure ==
    [][ (EndsBatchCall /\ result'.raised # "ValueError") =>
           (result'.raised = "LarkAPIError" <=> (pc = "chunk" /\ FailedChunks # {})) ]_vars

\* C4 amended: a call that reached the upload raises LarkAPIError exactly when
\* at least one chunk failed, its message quoting the first ShownErrors chunk
\* errors and, when there are more, the number of the others; with no failed
\* chunk it returns (True, identifiers).  A call that did not reach the upload
\* raises ValueError, or LarkAPIError when the table handle cannot be resolved.
C4_RaisesOnChunkFailureOrNoHandle ==
    [][ EndsBatchCall =>
           IF pc = "chunk"
           THEN IF FailedChunks # {}
                THEN /\ result'.raised = "LarkAPIError"
                     /\ Len(result'.summary.shown) <= 3
                     /\ result'.summary.shown =
                           SubSeq(error_messages, 1, Min(3, Len(error_messages)))
                     /\ result'.summary.more =
                           IF Len(error_messages) > 3 THEN Len(error_messages) - 3 ELSE 0
                ELSE /\ result'.raised = None
                     /\ result'.returned = << TRUE, success_ids >>
           ELSE /\ result'.raised \in {"ValueError", "LarkAPIError"}
                /\ result'.raised = "LarkAPIError" =>
                      (~Empty(wiki_token') /\ ~Empty(table_id') /\ Empty(_obj_token')) ]_vars

C4_Witness ==
    /\ result.op = "batch_create_records"
    /\ result.raised = "LarkAPIError"
    /\ result.msg = "upload failed"
    /\ Len(result.summary.shown) = 3
    /\ result.summary.more = 1

\* C5: when some chunks succeeded and some failed, the caller of
\* SimpleLarkClient.batch_create_records receives the identifiers created by
\* the successful chunks.
C5_PartialResultsReachCaller ==
    [][ (pc = "chunk" /\ pc' = "idle" /\ FailedChunks # {} /\ success_ids # << >>) =>
           (Len(result'.returned) = 2 /\ result'.returned[2] = success_ids) ]_vars

----------------------------------------------------------------------------
(* Properties of the client, the token cache and the handle cache          *)
(* (checked under Spec)                                                    *)

Last(seq) == seq[Len(seq)]

\* the answer is not a usable one: transport exception, non-200 status,
\* non-zero result code, or a body without the key read
AnswerFailed(resp) ==
    resp.raises \/ resp.status # 200 \/ resp.code # 0 \/ resp.data = << >>

HasInvalidRecord(records) ==
    \E j \in 1..Len(records) : ~_validate_record_format(RecordOf(records[j]))

\* C6: with table info set, a list holding an invalid record makes
\* batch_create_records raise ValueError naming the first such record, and no
\* network request of the call precedes it.
C6_InvalidRecordAbortsBeforeNetwork ==
    ( /\ result.op = "batch_create_records"
      /\ result.msg # "no table info"
      /\ HasInvalidRecord(result.records) )
    => /\ result.raised = "ValueError"
       /\ result.msg = "record"
       /\ ~_validate_record_format(RecordOf(result.records[result.position]))
       /\ wire = << >>

\* C7: after a failed credential exchange the auth manager holds no valid
\* token, the call returned none, and the exchange was not repeated.
C7_FailedExchangeLeavesNoToken ==
    ( /\ wire # << >>
      /\ Last(wire).req = "exchange"
      /\ AnswerFailed(Last(wire).resp) )
    => /\ ~is_token_valid
       /\ result.op = "get_tenant_access_token" => (result.ret = None /\ Len(wire) = 1)

\* C8: get_tenant_access_token answers from the cache, without a request, iff
\* a token is cached, no refresh is forced and the time is strictly before
\* (time of the exchange + declared lifetime - RefreshMargin); otherwise it
\* makes exactly one credential exchange.
C8_CachedIffFreshAndUnforced ==
    [][ (result'.op = "get_tenant_access_token" /\ now' = now) =>
           LET served == /\ ~result'.force
                         /\ _tenant_access_token # None
                         /\ _token_expire_time # << >>
                         /\ now < _token_expire_time[1]
           IN  /\ served => /\ wire' = << >>
                            /\ result'.ret = _tenant_access_token
                            /\ UNCHANGED authVars
               /\ ~served => /\ Len(wire') = 1
                             /\ wire'[1].req = "exchange"
                             /\ IF AnswerFailed(wire'[1].resp)
                                THEN result'.ret = None
                                ELSE LET d == wire'[1].resp.data[1]
                                         lifetime == IF d.expire = << >> THEN 7200
                                                     ELSE d.expire[1]
                                     IN /\ result'.ret = d.tenant_access_token
                                        /\ _tenant_access_token' = d.tenant_access_token
                                        /\ _token_expire_time' = << now + lifetime - 300 >>
      ]_vars

C8_Witness ==
    /\ result.op = "get_tenant_access_token"
    /\ ~result.force
    /\ result.ret = "t1"
    /\ wire = << >>
    /\ now > 0
    /\ _token_expire_time = << now + 1 >>

\* C9: once a wiki token is resolved, its cached handle never changes or
\* disappears, no later step issues a lookup request for it, and every later
\* use of it gets the cached handle.
C9_ResolvedHandleServedFromCache ==
    [][ \A w \in DOMAIN _obj_tokens :
           /\ w \in DOMAIN _obj_tokens'
           /\ _obj_tokens'[w] = _obj_tokens[w]
           /\ \A k \in 1..Len(wire') : ~(wire'[k].req = "lookup" /\ wire'[k].arg = w)
           /\ (result'.op = "get_obj_token" /\ result'.wiki = w /\ now' = now)
                 => (result'.ret = _obj_tokens[w] /\ wire' = << >>)
           /\ (result'.op = "set_table_info" /\ result'.wiki = w /\ now' = now
                  /\ result'.raised = None)
                 => (result'.ok /\ _obj_token' = _obj_tokens[w] /\ wire' = << >>)
      ]_vars

C9_Witness ==
    /\ result.op = "set_table_info"
    /\ result.wiki = "w2"
    /\ result.ok
    /\ wire = << >>
    /\ _obj_token = "o2"
    /\ DOMAIN _obj_tokens = {"w1", "w2"}

----------------------------------------------------------------------------
(* Threads sharing one LarkAuthManager and one LarkTableManager.  Each     *)
(* thread makes one call, get_tenant_access_token() or get_obj_token(w),   *)
(* and runs it in steps that the other thread's steps interleave with: a   *)
(* step ends where the thread waits, for the lock or for an answer.  The   *)
(* blocks under _cache_lock make no request, so each is a single step; the *)
(* block under _token_lock spans the credential exchange.                  *)

\* the wiki token the threads resolve
ThreadWikis == {"w1"}

\* with self._token_lock: the lock can be taken
TokenLockIgnored(holder) == TRUE
TokenLockFree(holder) == holder = "free"

\* the position in issued of the request thread t waits the answer of
Flying(t) == CHOOSE k \in 1..Len(issued) : issued[k].thread = t /\ issued[k].state = "flying"

Issue(t, req, arg) == Append(issued, [thread |-> t, req |-> req, arg |-> arg, state |-> "flying"])
Answered(t, ok) == [issued EXCEPT ![Flying(t)].state = IF ok THEN "ok" ELSE "failed"]

\* a thread enters get_tenant_access_token() or get_obj_token(w)
ThreadCall(t) ==
    /\ threads[t].pc = "idle"
    /\ \/ threads' = [threads EXCEPT ![t] = [pc |-> "token", op |-> "get_tenant_access_token",
                                             wiki |-> "", ret |-> None]]
       \/ \E w \in ThreadWikis :
             threads' = [threads EXCEPT ![t] = [pc |-> "check", op |-> "get_obj_token",
                                                wiki |-> w, ret |-> None]]
    /\ wire' = << >>
    /\ UNCHANGED << now, authVars, _obj_tokens, clientVars, pc, batchVars, result,
                    _token_lock, issued, parserVars >>

\* get_obj_token: the cache test, under _cache_lock
ObjCheck(t) ==
    /\ threads[t].pc = "check"
    /\ threads' = [threads EXCEPT ![t] =
                     IF threads[t].wiki \in DOMAIN _obj_tokens
                     THEN [@ EXCEPT !.pc = "done", !.ret = _obj_tokens[threads[t].wiki]]
                     ELSE [@ EXCEPT !.pc = "token"]]
    /\ wire' = << >>
    /\ UNCHANGED << now, authVars, _obj_tokens, clientVars, pc, batchVars, result,
                    _token_lock, issued, parserVars >>

\* get_tenant_access_token: the thread takes _token_lock and tests the cache;
\* a fresh token is returned at once (to get_obj_token, which goes on to its
\* lookup request), otherwise the exchange is requested with the lock held
TokenEnter(t) ==
    /\ threads[t].pc = "token"
    /\ TokenLockFree(_token_lock)
    /\ IF TokenFresh(AuthState, now)
       THEN /\ IF threads[t].op = "get_obj_token"
               THEN /\ threads' = [threads EXCEPT ![t].pc = "lookup"]
                    /\ issued' = Issue(t, "lookup", threads[t].wiki)
               ELSE /\ threads' = [threads EXCEPT ![t].pc = "done",
                                                  ![t].ret = _tenant_access_token]
                    /\ UNCHANGED issued
            /\ UNCHANGED _token_lock
       ELSE /\ threads' = [threads EXCEPT ![t].pc = "exchange"]
            /\ issued' = Issue(t, "exchange", "")
            /\ _token_lock' = t
    /\ wire' = << >>
    /\ UNCHANGED << now, authVars, _obj_tokens, clientVars, pc, batchVars, result,
                    parserVars >>

\* get_tenant_access_token: the answer of the exchange arrives; the token is
\* cached or not, the lock released, and get_obj_token goes on to its lookup
\* request when it got a token
ExchangeAnswer(t) ==
    /\ threads[t].pc = "exchange"
    /\ \E resp \in ExchangeResponses :
       LET r == ExchangeResult(AuthState, now, resp) IN
       /\ _tenant_access_token' = r.auth.token
       /\ _token_expire_time' = r.auth.expire
       /\ IF threads[t].op = "get_obj_token" /\ r.ret # None
          THEN /\ threads' = [threads EXCEPT ![t].pc = "lookup"]
               /\ issued' = Append(Answered(t, TRUE),
                                   [thread |-> t, req |-> "lookup",
                                    arg |-> threads[t].wiki, state |-> "flying"])
          ELSE /\ threads' = [threads EXCEPT ![t].pc = "done", ![t].ret = r.ret]
               /\ issued' = Answered(t, r.ret # None)
    /\ _token_lock' = IF _token_lock = t THEN "free" ELSE _token_lock
    /\ wire' = << >>
    /\ UNCHANGED << now, _obj_tokens, clientVars, pc, batchVars, result, parserVars >>

\* get_obj_token: the answer of the lookup arrives; a handle is stored under
\* _cache_lock and returned
LookupAnswer(t) ==
    /\ threads[t].pc = "lookup"
    /\ \E resp \in LookupResponses(threads[t].wiki) :
       LET r == LookupResult(_obj_tokens, threads[t].wiki, resp) IN
       /\ _obj_tokens' = r.cache
       /\ threads' = [threads EXCEPT ![t].pc = "done", ![t].ret = r.ret]
       /\ issued' = Answered(t, r.ret # None)
    /\ wire' = << >>
    /\ UNCHANGED << now, authVars, clientVars, pc, batchVars, result, _token_lock,
                    parserVars >>

NextThreads ==
    \/ Tick
    \/ \E t \in Threads : ThreadCall(t)
    \/ \E t \in Threads : ObjCheck(t)
    \/ \E t \in Threads : TokenEnter(t)
    \/ \E t \in Threads : ExchangeAnswer(t)
    \/ \E t \in Threads : LookupAnswer(t)

SpecThreads == Init /\ [][NextThreads]_vars

----------------------------------------------------------------------------
(* Properties of the managers under concurrency (checked under SpecThreads) *)

RequestsOf(req) == { k \in 1..Len(issued) : issued[k].req = req }
InFlight(req) == { k \in RequestsOf(req) : issued[k].state = "flying" }
BothCalled(op) == \A t \in Threads : threads[t].op = op
BothDone == \A t \in Threads : threads[t].pc = "done"

C12_AtMostOneLookup ==
    \A w \in ThreadWikis :
       LET lookups == { k \in RequestsOf("lookup") : issued[k].arg = w }
       IN  (\A k \in lookups : issued[k].state # "failed") => Cardinality(lookups) <= 1

----------------------------------------------------------------------------
(* test_connection (checked under Spec) *)

\* C13: with table info set, test_connection never raises; it returns True
\* only when its last request is the field-list read and that read was
\* answered with status 200 and result code 0; a failed exchange, lookup or
\* field-list read (exception, non-200 status, non-zero code) yields False.
C13_TrueOnlyOnSuccessfulRead ==
    [][ ( /\ result'.op = "test_connection"
          /\ now' = now
          /\ ~Empty(wiki_token) /\ ~Empty(table_id) )
        => /\ result'.raised = None
           /\ result'.ok <=> ( /\ wire' # << >>
                               /\ Last(wire').req = "fields"
                               /\ ~Last(wire').resp.raises
                               /\ Last(wire').resp.status = 200
                               /\ Last(wire').resp.code = 0 )
           /\ (\E k \in 1..Len(wire') : \/ wire'[k].resp.raises
                                        \/ wire'[k].resp.status # 200
                                        \/ wire'[k].resp.code # 0) => ~result'.ok
           /\ (_obj_token' = None \/ _tenant_access_token' = None) => ~result'.ok
      ]_vars

C13_Witness ==
    /\ result.op = "test_connection"
    /\ result.ok
    /\ Len(wire) = 3
    /\ wire[1].req = "exchange" /\ wire[2].req = "lookup" /\ wire[3].req = "fields"

----------------------------------------------------------------------------
\* everything but the parser's and cleaner's own variables
restVars == << now, authVars, _obj_tokens, uploadVars, threadVars, flow >>

----------------------------------------------------------------------------
(* TestRailXMLParser (src/src/parsers/xml_parser.py).  A document is the   *)
(* sequence of its elements in document order: element 1 is the root, each *)
(* other element names its parent; a case element carries its title child  *)
(* (<<>>: no title element or no text in it, otherwise <<text>>).  The     *)
(* root of an export is a suite; another root tag is accepted as well.     *)
(* xml_root = None is the empty sequence.                                  *)

MaxNodes == 4           \* elements of a document, the root included

RootTags == {"suite", "export"}
ElementTags == {"sections", "section", "case"}
TitlesOf(tag) ==
    IF tag = "case"
    THEN { << >>, << << " " >> >>, << << " ", "a" >> >>, << << "a" >> >> }
    ELSE { << >> }

\* element k and its ancestors
RECURSIVE Ancestors(_, _)
Ancestors(doc, k) ==
    IF k = 0 THEN {} ELSE {k} \cup Ancestors(doc, doc[k].parent)

\* the kinds of element below the root: a tag and, for a case, its title
ElementKinds ==
    UNION { { [tag |-> g, title |-> ti] : ti \in TitlesOf(g) } : g \in ElementTags }

\* parent[k] for the elements 2..n of a document in document order: the
\* parent of k is the element before it or one of that element's ancestors
RECURSIVE Chain(_, _)
Chain(parent, k) == IF k = 1 THEN {1} ELSE {k} \cup Chain(parent, parent[k])
Shapes(n) ==
    { parent \in [2..n -> 1..(n - 1)] :
         \A k \in 2..n : parent[k] \in Chain(parent, k - 1) }

\* the document of n elements with root tag r, that shape and those kinds
Document(n, r, parent, kind) ==
    [ k \in 1..n |-> IF k = 1
                     THEN [tag |-> r, parent |-> 0, title |-> << >>]
                     ELSE [tag |-> kind[k].tag, parent |-> parent[k],
                           title |-> kind[k].title] ]

\* the files handed to parse_xml_file: no path, a missing file, a file that
\* is not well-formed XML, and a well-formed file per document
BareRoot == << [tag |-> "suite", parent |-> 0, title |-> << >>] >>
BrokenFiles ==
    { [path |-> "",      exists |-> FALSE, wellformed |-> FALSE, root |-> BareRoot],
      [path |-> "f.xml", exists |-> FALSE, wellformed |-> FALSE, root |-> BareRoot],
      [path |-> "f.xml", exists |-> TRUE,  wellformed |-> FALSE, root |-> BareRoot] }
WellFormedFile(d) ==
    [path |-> "f.xml", exists |-> TRUE, wellformed |-> TRUE, root |-> d]

\* xml_root.find(tag): the direct children of the root with that tag
find(xml_root, tag) ==
    { k \in 1..Len(xml_root) : xml_root[k].parent = 1 /\ xml_root[k].tag = tag }

\* xml_root.findall(".//case"): the case elements below the root, in
\* document order
_find_all_case_elements(xml_root) ==
    LET below(k) == k # 1 /\ 1 \in Ancestors(xml_root, k) /\ xml_root[k].tag = "case"
    IN  SelectSeq([ k \in 1..Len(xml_root) |-> k ], below)

\* _get_element_text without the strip
_get_element_text_unstripped(elem) ==
    IF elem.title # << >> THEN elem.title[1] ELSE << >>

\* _get_element_text(case_elem, "title", "")
_get_element_text(elem) ==
    IF elem.title # << >> THEN strip(elem.title[1]) ELSE << >>

\* _extract_single_test_case: << >> for None, otherwise << test case >>
_extract_single_test_case(xml_root, k) ==
    LET title == _get_element_text(xml_root[k])
    IN  IF title = << >> THEN << >> ELSE << [node |-> k, title |-> title] >>

RECURSIVE ExtractEach(_, _)
ExtractEach(xml_root, case_elements) ==
    IF case_elements = << >> THEN << >>
    ELSE _extract_single_test_case(xml_root, Head(case_elements))
            \o ExtractEach(xml_root, Tail(case_elements))

extract_test_cases(xml_root) ==
    IF xml_root = << >> THEN << >>
    ELSE ExtractEach(xml_root, _find_all_case_elements(xml_root))

validate_xml_structure(xml_root) ==
    IF xml_root = << >> THEN FALSE
    ELSE IF find(xml_root, "sections") = {}
         THEN _find_all_case_elements(xml_root) # << >>
         ELSE TRUE

\* parse_xml_file: what it returns or raises.  The ValueError raised for a
\* rejected structure is raised inside the try block, whose last handler,
\* except Exception, raises TestRailParseError in its place.
parse_xml_file(file) ==
    IF file.path = "" THEN [cases |-> << >>, raised |-> "ValueError"]
    ELSE IF ~file.exists THEN [cases |-> << >>, raised |-> "FileNotFoundError"]
    ELSE IF ~file.wellformed THEN [cases |-> << >>, raised |-> "ParseError"]
    ELSE IF ~validate_xml_structure(file.root)
         THEN [cases |-> << >>, raised |-> "TestRailParseError"]
         ELSE [cases |-> extract_test_cases(file.root), raised |-> None]

ParserCall(op, arg, valid, cases, raised) ==
    [op |-> op, arg |-> arg, valid |-> valid, cases |-> cases, raised |-> raised]

InitParser ==
    /\ Constructed
    /\ \/ input \in BrokenFiles
       \/ \E n \in 1..MaxNodes :
             \E r \in RootTags, parent \in Shapes(n), kind \in [2..n -> ElementKinds] :
                input = WellFormedFile(Document(n, r, parent, kind))

ParseXmlFile ==
    /\ calls = << >>
    /\ calls' = << ParserCall("parse_xml_file", input.root,
                              input.wellformed /\ validate_xml_structure(input.root),
                              parse_xml_file(input).cases, parse_xml_file(input).raised) >>
    /\ UNCHANGED << restVars, input >>

ValidateXmlStructure ==
    /\ calls = << >>
    /\ \E xml_root \in {input.root, << >>} :
          calls' = << ParserCall("validate_xml_structure", xml_root,
                                 validate_xml_structure(xml_root), << >>, None) >>
    /\ UNCHANGED << restVars, input >>

ExtractTestCases ==
    /\ calls = << >>
    /\ \E xml_root \in {input.root, << >>} :
          calls' = << ParserCall("extract_test_cases", xml_root,
                                 validate_xml_structure(xml_root),
                                 extract_test_cases(xml_root), None) >>
    /\ UNCHANGED << restVars, input >>

NextParser == ParseXmlFile \/ ValidateXmlStructure \/ ExtractTestCases

SpecParser == InitParser /\ [][NextParser]_vars

----------------------------------------------------------------------------
(* Properties of the parser (checked under SpecParser) *)

\* the case elements of a document, and those whose title is blank: absent,
\* empty or made of white space only
CaseNodes(doc) == { k \in 2..Len(doc) : doc[k].tag = "case" }
BlankTitle(elem) ==
    \/ elem.title = << >>
    \/ \A j \in 1..Len(elem.title[1]) : elem.title[1][j] \in WhiteSpace
BlankCases(doc) == { k \in CaseNodes(doc) : BlankTitle(doc[k]) }

\* C14: extract_test_cases returns at most as many records as the document
\* has case elements, at any depth; the records are those of the case
\* elements with a non-blank title, in document order, so that the numbers
\* are equal iff no case element has a blank title; a null root gives the
\* empty list.
C14_ExtractedAreTheTitledCases ==
    \A c \in 1..Len(calls) :
       calls[c].op = "extract_test_cases" =>
          LET doc == calls[c].arg
              got == calls[c].cases
          IN  /\ calls[c].raised = None
              /\ Len(got) <= Cardinality(CaseNodes(doc))
              /\ (Len(got) = Cardinality(CaseNodes(doc))) <=> (BlankCases(doc) = {})
              /\ { got[j].node : j \in 1..Len(got) } = CaseNodes(doc) \ BlankCases(doc)
              /\ \A j, k \in 1..Len(got) : j < k => got[j].node < got[k].node
              /\ doc = << >> => got = << >>

C14_Witness ==
    /\ calls # << >>
    /\ calls[1].op = "extract_test_cases"
    /\ Len(calls[1].arg) = 4
    /\ Cardinality(CaseNodes(calls[1].arg)) = 3
    /\ calls[1].arg[4].parent = 3
    /\ Len(calls[1].cases) = 2
    /\ BlankCases(calls[1].arg) = {3}

\* C15: validate_xml_structure fails for every document without a case
\* element, with or without a sections element, and succeeds for every
\* document with one.
C15_ValidIffSomeCase ==
    \A c \in 1..Len(calls) :
       (calls[c].op = "validate_xml_structure" /\ calls[c].arg # << >>) =>
          (calls[c].valid <=> CaseNodes(calls[c].arg) # {})

\* C16: parse_xml_file raises ValueError to its caller whenever
\* validate_xml_structure rejects the parsed document.
C16_RejectedStructureRaisesValueError ==
    \A c \in 1..Len(calls) :
       ( /\ calls[c].op = "parse_xml_file"
         /\ input.path # "" /\ input.exists /\ input.wellformed
         /\ ~validate_xml_structure(input.root) )
       => calls[c].raised = "ValueError"

----------------------------------------------------------------------------
(* TestCaseDataCleaner (src/src/parsers/data_cleaner.py): case numbers.    *)
(* The regular expressions are matched character by character the way      *)
(* re matches them; in these patterns a greedy \d+ is the whole run of     *)
(* digits, since what follows it is not a digit.                           *)

MaxPieces == 3          \* a title is made of at most MaxPieces pieces

Digits == {"0", "1", "2", "3", "4", "5", "6", "7", "8", "9"}

\* the pieces titles are made of: numbers with and without the hyphen,
\* parts of numbers, a blank, a letter
TitlePieces ==
    { << "T", "C", "G", "-", "1", ".", "2", ".", "3" >>,
      << "T", "C", "G", "1", ".", "2", ".", "3" >>,
      << "T", "C" >>,
      << "G", "-", "1", ".", "2", ".", "3" >>,
      << "T", "C", "G", "-", "1", "." >>,
      << "2" >>,
      << "." >>,
      << " " >>,
      << "x" >> }

RECURSIVE TextsOf(_, _)
TextsOf(pieces, n) ==
    IF n = 0 THEN { << >> }
    ELSE LET shorter == TextsOf(pieces, n - 1)
         IN  shorter \cup { t \o q : t \in shorter, q \in pieces }

Titles == TextsOf(TitlePieces, MaxPieces)

\* the index after the run of digits that starts at q (q itself: no digit)
RECURSIVE DigitsEnd(_, _)
DigitsEnd(s, q) ==
    IF q <= Len(s) /\ s[q] \in Digits THEN DigitsEnd(s, q + 1) ELSE q

\* (\d+)\.(\d+)\.(\d+) at q: the index of its last character, 0 for no match
MatchGroups(s, q) ==
    LET e1 == DigitsEnd(s, q)
        e2 == DigitsEnd(s, e1 + 1)
        e3 == DigitsEnd(s, e2 + 1)
    IN  IF /\ e1 > q /\ e1 <= Len(s) /\ s[e1] = "."
           /\ e2 > e1 + 1 /\ e2 <= Len(s) /\ s[e2] = "."
           /\ e3 > e2 + 1
        THEN e3 - 1 ELSE 0

StartsWith(s, q, word) ==
    /\ q + Len(word) - 1 <= Len(s)
    /\ SubSeq(s, q, q + Len(word) - 1) = word

\* _case_number_pattern, TCG-?(\d+)\.(\d+)\.(\d+), at q
_case_number_pattern(s, q) ==
    IF ~StartsWith(s, q, << "T", "C", "G" >>) THEN 0
    ELSE IF StartsWith(s, q + 3, << "-" >>) THEN MatchGroups(s, q + 4)
    ELSE MatchGroups(s, q + 3)

\* _hyphen_fix_pattern, TCG(\d+)\.(\d+)\.(\d+), at q
_hyphen_fix_pattern(s, q) ==
    IF ~StartsWith(s, q, << "T", "C", "G" >>) THEN 0 ELSE MatchGroups(s, q + 3)

\* pattern.search(s): the first index the pattern matches at, 0 for none
search(s) ==
    LET at == { q \in 1..Len(s) : _case_number_pattern(s, q) # 0 }
    IN  IF at = {} THEN 0 ELSE CHOOSE q \in at : \A r \in at : q <= r

\* s.replace(old, "") : every occurrence of old deleted, left to right
RECURSIVE replace_all(_, _)
replace_all(s, old) ==
    IF s = << >> THEN << >>
    ELSE IF StartsWith(s, 1, old)
         THEN replace_all(SubSeq(s, Len(old) + 1, Len(s)), old)
         ELSE << Head(s) >> \o replace_all(Tail(s), old)

\* s.replace(old, "", 1): the first occurrence of old deleted
replace_first(s, old) ==
    LET at == { q \in 1..Len(s) : StartsWith(s, q, old) }
    IN  IF at = {} THEN s
        ELSE LET q == CHOOSE q \in at : \A r \in at : q <= r
             IN  SubSeq(s, 1, q - 1) \o SubSeq(s, q + Len(old), Len(s))

\* fix_missing_hyphen putting a hyphen behind every leading TCG
fix_missing_hyphen_always(case_number) ==
    IF StartsWith(case_number, 1, << "T", "C", "G" >>)
    THEN << "T", "C", "G", "-" >> \o SubSeq(case_number, 4, Len(case_number))
    ELSE case_number

fix_missing_hyphen(case_number) ==
    IF /\ StartsWith(case_number, 1, << "T", "C", "G", "-" >>)
       /\ _case_number_pattern(case_number, 1) # 0
    THEN case_number
    ELSE IF _hyphen_fix_pattern(case_number, 1) # 0
         THEN << "T", "C", "G", "-" >>
                 \o SubSeq(case_number, 4, _hyphen_fix_pattern(case_number, 1))
         ELSE case_number

\* clean_title without the final strip
clean_title_untrimmed(title, full_match) == replace_first(title, full_match)

\* clean_title = title.replace(full_match, "", 1).strip()
clean_title(title, full_match) == strip(replace_first(title, full_match))

\* extract_test_case_number_and_title(title): [number, text]
extract_test_case_number_and_title(title) ==
    LET t == strip(title)
        q == search(t)
    IN  IF t = << >> THEN [number |-> << >>, text |-> << >>]
        ELSE IF q # 0
             THEN LET full_match == SubSeq(t, q, _case_number_pattern(t, q))
                  IN  [number |-> fix_missing_hyphen(full_match),
                       text   |-> clean_title(t, full_match)]
             ELSE [number |-> << >>, text |-> t]

CleanerCall(op, arg, number, text) ==
    [op |-> op, arg |-> arg, number |-> number, text |-> text]

InitTitle == Constructed /\ input \in Titles

\* the text a call is made on: the input, then what the call before returned
NextArg == IF calls = << >> THEN input ELSE calls[Len(calls)].text

ExtractTestCaseNumberAndTitle ==
    /\ Len(calls) < 2
    /\ LET r == extract_test_case_number_and_title(NextArg)
       IN  calls' = Append(calls, CleanerCall("extract_test_case_number_and_title",
                                              NextArg, r.number, r.text))
    /\ UNCHANGED << restVars, input >>

FixMissingHyphen ==
    /\ Len(calls) < 2
    /\ calls' = Append(calls, CleanerCall("fix_missing_hyphen", NextArg, << >>,
                                          fix_missing_hyphen(NextArg)))
    /\ UNCHANGED << restVars, input >>

NextTitle == ExtractTestCaseNumberAndTitle \/ FixMissingHyphen

SpecTitle == InitTitle /\ [][NextTitle]_vars

----------------------------------------------------------------------------
(* Properties of the case-number functions (checked under SpecTitle) *)

TCG == << "T", "C", "G" >>

\* b is d+.d+.d+ : digits but for two dots, neither at an end nor adjacent
IsGroups(b) ==
    LET dots == { j \in 1..Len(b) : b[j] = "." }
    IN  /\ Cardinality(dots) = 2
        /\ \A j \in 1..Len(b) : j \notin dots => b[j] \in Digits
        /\ 1 \notin dots /\ Len(b) \notin dots
        /\ \A j \in dots : j + 1 \notin dots

\* s is, as a whole, TCG-d+.d+.d+ (canonical) or TCGd+.d+.d+
IsCanonical(s) ==
    Len(s) > 4 /\ SubSeq(s, 1, 4) = TCG \o << "-" >> /\ IsGroups(SubSeq(s, 5, Len(s)))
IsNumber(s) ==
    \/ IsCanonical(s)
    \/ Len(s) > 3 /\ SubSeq(s, 1, 3) = TCG /\ IsGroups(SubSeq(s, 4, Len(s)))
Canonical(s) == IF IsCanonical(s) THEN s ELSE (TCG \o << "-" >>) \o SubSeq(s, 4, Len(s))

\* the occurrences <<first, last>> of a number in t, and the first of them:
\* the leftmost, at its longest
Occurrences(t) ==
    { o \in { q \in 1..Len(t) : StartsWith(t, q, TCG) } \X (1..Len(t)) :
         o[1] <= o[2] /\ IsNumber(SubSeq(t, o[1], o[2])) }
FirstOccurrence(t) ==
    CHOOSE o \in Occurrences(t) :
       \A x \in Occurrences(t) : o[1] < x[1] \/ (o[1] = x[1] /\ o[2] >= x[2])

IsExtract(c) == c.op = "extract_test_case_number_and_title"
IsFix(c) == c.op = "fix_missing_hyphen"

\* C17: extract_test_case_number_and_title consumes the first occurrence of
\* TCG-?d+.d+.d+ only: the number returned is that occurrence in canonical
\* form (hyphen inserted when missing), the remainder is the trimmed title
\* with exactly that occurrence deleted, trimmed, later occurrences left as
\* they are; without an occurrence it returns ("", trimmed title), and ("", "")
\* for an empty or white-space title.
C17_FirstOccurrenceConsumed ==
    \A k \in 1..Len(calls) :
       IsExtract(calls[k]) =>
          LET t == strip(calls[k].arg) IN
          IF Occurrences(t) = {}
          THEN calls[k].number = << >> /\ calls[k].text = t
          ELSE LET o == FirstOccurrence(t) IN
               /\ calls[k].number = Canonical(SubSeq(t, o[1], o[2]))
               /\ IsCanonical(calls[k].number)
               /\ calls[k].text = strip(SubSeq(t, 1, o[1] - 1) \o SubSeq(t, o[2] + 1, Len(t)))

C17_Witness ==
    /\ Len(calls) = 1
    /\ IsExtract(calls[1])
    /\ calls[1].arg = << " ", "T", "C", "G", "1", ".", "2", ".", "3",
                         "T", "C", "G", "-", "1", ".", "2", ".", "3" >>
    /\ calls[1].number = << "T", "C", "G", "-", "1", ".", "2", ".", "3" >>
    /\ calls[1].text = << "T", "C", "G", "-", "1", ".", "2", ".", "3" >>

\* C18 as stated: re-running the extraction on the remainder r of any title
\* yields ("", r).
C18_RemainderYieldsNoNumber ==
    (Len(calls) = 2 /\ IsExtract(calls[1]) /\ IsExtract(calls[2])) =>
        (calls[2].number = << >> /\ calls[2].text = calls[2].arg)

\* C18 amended: re-running the extraction on the remainder r yields ("", r)
\* exactly when r holds no occurrence of the pattern; a title with several
\* occurrences, or one whose parts join into an occurrence once the first is
\* deleted, leaves one in r, and the second run consumes it.
C18_RemainderWithoutNumberIsFixed ==
    (Len(calls) = 2 /\ IsExtract(calls[1]) /\ IsExtract(calls[2])) =>
        /\ calls[2].arg = calls[1].text
        /\ (calls[2].number = << >> /\ calls[2].text = calls[2].arg)
              <=> Occurrences(calls[2].arg) = {}

C18_Witness ==
    /\ Len(calls) = 2 /\ IsExtract(calls[1]) /\ IsExtract(calls[2])
    /\ calls[1].number # << >>
    /\ calls[1].text = << "x" >>
    /\ calls[2].number = << >>
    /\ calls[2].text = calls[1].text

\* C20: fix_missing_hyphen returns a string of the form TCG-d+.d+.d+ and a
\* string that begins with no known form unchanged, and applying it to its
\* own result changes nothing.
C20_FixIsIdempotent ==
    \A k \in 1..Len(calls) :
       IsFix(calls[k]) =>
          /\ IsCanonical(calls[k].arg) => calls[k].text = calls[k].arg
          /\ (\A e \in 1..Len(calls[k].arg) : ~IsNumber(SubSeq(calls[k].arg, 1, e)))
                => calls[k].text = calls[k].arg
          /\ (k > 1 /\ IsFix(calls[k - 1])) => calls[k].text = calls[k].arg

C20_Witness ==
    /\ Len(calls) = 2 /\ IsFix(calls[1]) /\ IsFix(calls[2])
    /\ calls[1].arg = << "T", "C", "G", "1", ".", "2", ".", "3", "x" >>
    /\ calls[1].text = << "T", "C", "G", "-", "1", ".", "2", ".", "3" >>
    /\ calls[2].text = calls[1].text

----------------------------------------------------------------------------
(* TestCaseDataCleaner: Markdown.  Each pattern is an opening mark, a run  *)
(* of one or more characters other than its stop character, and a closing  *)
(* mark; the run is the group kept by the substitution.                    *)

\* the grave accent, the mark of code spans and fenced blocks
Grave == "grave"

\* the pieces contents are made of: marks, link parts, a letter, a blank
ContentPieces ==
    { << "a" >>, << " " >>, << "*" >>, << "*", "*" >>,
      << Grave >>, << Grave, Grave >>, << Grave, Grave, Grave >>,
      << "[", "a" >>, << "]", "(" >>, << "b", ")" >>, << "[" >>, << ")" >> }

Contents == TextsOf(ContentPieces, MaxPieces)

\* the index after the run of characters other than stop that starts at q
RECURSIVE RunEnd(_, _, _)
RunEnd(s, q, stop) ==
    IF q <= Len(s) /\ s[q] # stop THEN RunEnd(s, q + 1, stop) ELSE q

NoMatch == [last |-> 0, group |-> << >>]

\* open ([^stop]+) close at q: the index of its last character and the group
Delimited(s, q, open, stop, close) ==
    LET g == q + Len(open)
        e == RunEnd(s, g, stop)
    IN  IF StartsWith(s, q, open) /\ e > g /\ StartsWith(s, e, close)
        THEN [last |-> e + Len(close) - 1, group |-> SubSeq(s, g, e - 1)]
        ELSE NoMatch

\* _url_link_pattern, \[([^\]]+)\]\([^)]+\), at q
_url_link_pattern(s, q) ==
    LET text == Delimited(s, q, << "[" >>, "]", << "]", "(" >>)
        e == RunEnd(s, text.last + 1, ")")
    IN  IF text.last # 0 /\ e > text.last + 1 /\ StartsWith(s, e, << ")" >>)
        THEN [last |-> e, group |-> text.group]
        ELSE NoMatch

MatchAt(pattern, s, q) ==
    CASE pattern = "_url_link_pattern" -> _url_link_pattern(s, q)
      [] pattern = "_markdown_code_block_pattern" ->
            Delimited(s, q, << Grave, Grave, Grave >>, Grave, << Grave, Grave, Grave >>)
      [] pattern = "_markdown_code_pattern" ->
            Delimited(s, q, << Grave >>, Grave, << Grave >>)
      [] pattern = "_markdown_bold_pattern" ->
            Delimited(s, q, << "*", "*" >>, "*", << "*", "*" >>)
      [] pattern = "_markdown_italic_pattern" ->
            Delimited(s, q, << "*" >>, "*", << "*" >>)

\* pattern.sub applied to s from index q on: the matches, found left to
\* right without overlap, are replaced by their group
RECURSIVE SubFrom(_, _, _)
SubFrom(pattern, s, q) ==
    IF q > Len(s) THEN << >>
    ELSE LET m == MatchAt(pattern, s, q)
         IN  IF m.last # 0 THEN m.group \o SubFrom(pattern, s, m.last + 1)
             ELSE << s[q] >> \o SubFrom(pattern, s, q + 1)

sub(pattern, s) == SubFrom(pattern, s, 1)

extract_url_description(url_content) == sub("_url_link_pattern", url_content)

\* the while loop of clean_markdown_content: bold, then italic, until
\* nothing changes
RECURSIVE StripEmphasis(_)
StripEmphasis(content) ==
    LET cleaned == sub("_markdown_italic_pattern", sub("_markdown_bold_pattern", content))
    IN  IF cleaned = content THEN content ELSE StripEmphasis(cleaned)

clean_markdown_content(content) ==
    IF content = << >> THEN << >>
    ELSE strip(StripEmphasis(
            sub("_markdown_code_pattern",
                sub("_markdown_code_block_pattern", extract_url_description(content)))))

InitMarkdown == Constructed /\ input \in Contents

CleanMarkdownContent ==
    /\ Len(calls) < 2
    /\ calls' = Append(calls, CleanerCall("clean_markdown_content", NextArg, << >>,
                                          clean_markdown_content(NextArg)))
    /\ UNCHANGED << restVars, input >>

ExtractUrlDescription ==
    /\ Len(calls) < 2
    /\ calls' = Append(calls, CleanerCall("extract_url_description", NextArg, << >>,
                                          extract_url_description(NextArg)))
    /\ UNCHANGED << restVars, input >>

NextMarkdown == CleanMarkdownContent \/ ExtractUrlDescription

SpecMarkdown == InitMarkdown /\ [][NextMarkdown]_vars

\* C19: clean_markdown_content is idempotent: cleaning a cleaned text
\* returns it unchanged.
C19_CleanIsIdempotent ==
    \A k \in 2..Len(calls) :
       ( /\ calls[k].op = "clean_markdown_content"
         /\ calls[k - 1].op = "clean_markdown_content" )
       => calls[k].text = calls[k].arg

----------------------------------------------------------------------------
(* LarkDataFormatter (src/src/parsers/formatter.py).  A test case is a     *)
(* dict from field names to values, or a value that is not a dict.  The    *)
(* formatter's input is a list of test cases; input holds it, calls the    *)
(* formatter calls made on it.                                             *)

MaxBatch == 3           \* the longest list handed to batch_format_records

_required_fields ==
    << "test_case_number", "title", "priority", "precondition", "steps",
       "expected_result" >>
_critical_fields == << "test_case_number", "title", "steps", "expected_result" >>

High == << "H", "i", "g", "h" >>
Medium == << "M", "e", "d", "i", "u", "m" >>
Low == << "L", "o", "w" >>

\* str.lower(), on the letters the priorities are written with
lower_char(c) ==
    CASE c = "H" -> "h" [] c = "I" -> "i" [] c = "G" -> "g" [] c = "M" -> "m"
      [] c = "E" -> "e" [] c = "D" -> "d" [] c = "U" -> "u" [] c = "L" -> "l"
      [] c = "O" -> "o" [] c = "W" -> "w" [] OTHER -> c
lower(s) == [ k \in 1..Len(s) |-> lower_char(s[k]) ]

\* self._priority_mapping.get(priority_str, "Medium")
_priority_mapping(priority_str) ==
    IF priority_str = lower(High) THEN High
    ELSE IF priority_str = lower(Low) THEN Low
    ELSE Medium

\* format_priority_field without the lower-casing
format_priority_field_cased(priority) ==
    IF priority.type = "NoneType" THEN Medium
    ELSE LET priority_str == strip(str(priority))
         IN  IF priority_str = << >> THEN Medium ELSE _priority_mapping(priority_str)

\* LarkDataFormatter.format_priority_field(priority)
format_priority_field(priority) ==
    IF priority.type = "NoneType" THEN Medium
    ELSE LET priority_str == lower(strip(str(priority)))
         IN  IF priority_str = << >> THEN Medium ELSE _priority_mapping(priority_str)

\* isinstance(test_case, dict): a value has a type, a dict has field names
IsDict(test_case) == "type" \notin DOMAIN test_case

\* validate_required_fields without the test of str(value).strip()
validate_required_fields_unstripped(test_case) ==
    /\ IsDict(test_case)
    /\ \A k \in 1..Len(_required_fields) : _required_fields[k] \in DOMAIN test_case
    /\ \A k \in 1..Len(_critical_fields) : ~Falsy(test_case[_critical_fields[k]])

\* LarkDataFormatter.validate_required_fields(test_case)
validate_required_fields(test_case) ==
    /\ IsDict(test_case)
    /\ \A k \in 1..Len(_required_fields) : _required_fields[k] \in DOMAIN test_case
    /\ \A k \in 1..Len(_critical_fields) :
          LET value == test_case[_critical_fields[k]]
          IN  ~(Falsy(value) \/ StripEmpty(value))

\* the record format_test_case_for_lark builds from a validated test case
formatted_record(test_case) ==
    [ field \in RequiredFields |->
        IF field = "priority" THEN Str(format_priority_field(test_case[field]))
        ELSE Str(str(test_case[field])) ]

\* formatted_record trimming the texts it copies
formatted_record_trimmed(test_case) ==
    [ field \in RequiredFields |->
        IF field = "priority" THEN Str(format_priority_field(test_case[field]))
        ELSE Str(strip(str(test_case[field]))) ]

\* the names of _required_fields that are not keys of test_case, in order
missing_fields(test_case) ==
    LET Missing(field) == field \notin DOMAIN test_case
    IN  SelectSeq(_required_fields, Missing)

Formatted(out) == [raised |-> None, missing |-> << >>, out |-> out]
FormatError(raised, missing) == [raised |-> raised, missing |-> missing, out |-> << >>]

\* format_test_case_for_lark raising only when a key is absent
format_test_case_for_lark_lenient(test_case) ==
    IF ~IsDict(test_case) THEN FormatError("TypeError", << >>)
    ELSE IF missing_fields(test_case) # << >>
    THEN FormatError("ValidationError", missing_fields(test_case))
    ELSE Formatted(<< formatted_record(test_case) >>)

\* format_test_case_for_lark with formatted_record_trimmed
format_test_case_for_lark_trimming(test_case) ==
    IF ~IsDict(test_case) THEN FormatError("TypeError", << >>)
    ELSE IF ~validate_required_fields(test_case)
    THEN FormatError("ValidationError", missing_fields(test_case))
    ELSE Formatted(<< formatted_record_trimmed(test_case) >>)

\* LarkDataFormatter.format_test_case_for_lark(test_case): the exception it
\* raises with the missing fields it names, or the record it returns (out)
format_test_case_for_lark(test_case) ==
    IF ~IsDict(test_case) THEN FormatError("TypeError", << >>)
    ELSE IF ~validate_required_fields(test_case)
    THEN FormatError("ValidationError", missing_fields(test_case))
    ELSE Formatted(<< formatted_record(test_case) >>)

\* batch_format_records leaving the loop at the first record it skips
RECURSIVE batch_format_records_breaking(_)
batch_format_records_breaking(test_cases) ==
    IF test_cases = << >> THEN << >>
    ELSE IF ~validate_required_fields(Head(test_cases)) THEN << >>
    ELSE LET formatted == format_test_case_for_lark(Head(test_cases))
         IN  IF formatted.raised # None THEN << >>
             ELSE formatted.out \o batch_format_records_breaking(Tail(test_cases))

\* LarkDataFormatter.batch_format_records(test_cases)
RECURSIVE batch_format_records(_)
batch_format_records(test_cases) ==
    IF test_cases = << >> THEN << >>
    ELSE IF ~validate_required_fields(Head(test_cases))
    THEN batch_format_records(Tail(test_cases))
    ELSE LET formatted == format_test_case_for_lark(Head(test_cases))
         IN  IF formatted.raised # None
             THEN batch_format_records(Tail(test_cases))
             ELSE formatted.out \o batch_format_records(Tail(test_cases))

\* the values of the fields of the test cases handed to the formatter;
\* Absent stands for a key the dict does not have
Absent == [type |-> "absent", text |-> << >>]
FieldValues ==
    { Str(<< >>), Blank, Str(<< " ", "a" >>), NoneValue, IntValue(<< "0" >>),
      IntValue(<< "7" >>) }
PreconditionValues == { Str(<< >>), Str(<< "p" >>) }
PriorityValues ==
    { NoneValue, Str(<< >>), Blank, Str(<< "h", "i", "g", "h" >>),
      Str(<< " ", "H", "i", "g", "h", " " >>), Str(<< "L", "O", "W" >>),
      Str(<< "m", "e", "d", "i", "u", "m" >>), Str(<< "u", "r", "g", "e", "n", "t" >>) }

\* the dict with the keys that are given a value
Dict(items) == [ key \in { k \in DOMAIN items : items[k] # Absent } |-> items[key] ]

TestCase(number, title, priority, precondition, steps, expected) ==
    Dict([test_case_number |-> number, title |-> title, priority |-> priority,
          precondition |-> precondition, steps |-> steps, expected_result |-> expected])

NonDicts == { NoneValue, Str(<< "a" >>) }

\* the test cases the lists of several are made of: two complete ones, one
\* with a key more, one without expected_result, one with blank steps, None
SampleCases ==
    { TestCase(Str(<< "a" >>), Str(<< "a" >>), Str(<< "L", "O", "W" >>), Str(<< >>),
               Str(<< "a" >>), Str(<< "a" >>)),
      TestCase(IntValue(<< "7" >>), Str(<< " ", "a" >>), Absent, Str(<< "p" >>),
               Str(<< "a" >>), Str(<< "a" >>))
        @@ [priority |-> Str(<< " ", "H", "i", "g", "h", " " >>), id |-> Str(<< "7" >>)],
      TestCase(Str(<< "a" >>), Str(<< "a" >>), Str(<< >>), Str(<< >>),
               Str(<< "a" >>), Absent),
      TestCase(Str(<< "a" >>), Str(<< "a" >>), NoneValue, Str(<< >>),
               Blank, Str(<< "a" >>)),
      NoneValue }

RECURSIVE ListsOf(_, _)
ListsOf(cases, n) ==
    IF n = 0 THEN { << >> }
    ELSE { << >> } \cup { << c >> \o l : c \in cases, l \in ListsOf(cases, n - 1) }

FormatterCall(op, at, ok, formatted) ==
    [op |-> op, at |-> at, ok |-> ok, raised |-> formatted.raised,
     missing |-> formatted.missing, out |-> formatted.out]

InitFormatter ==
    /\ Constructed
    /\ \/ \E number \in FieldValues \cup {Absent}, title \in FieldValues \cup {Absent},
             priority \in PriorityValues \cup {Absent},
             precondition \in PreconditionValues \cup {Absent},
             steps \in FieldValues \cup {Absent}, expected \in FieldValues \cup {Absent} :
             input = << TestCase(number, title, priority, precondition, steps, expected) >>
       \/ \E value \in NonDicts : input = << value >>
       \/ input \in ListsOf(SampleCases, MaxBatch)

\* formatter.format_test_case_for_lark(input[k])
FormatTestCaseForLark ==
    /\ calls = << >>
    /\ \E k \in 1..Len(input) :
          LET formatted == format_test_case_for_lark(input[k])
          IN  calls' = << FormatterCall("format_test_case_for_lark", k,
                                        formatted.raised = None, formatted) >>
    /\ UNCHANGED << restVars, input >>

\* formatter.format_priority_field(input[k]["priority"])
FormatPriorityField ==
    /\ calls = << >>
    /\ \E k \in 1..Len(input) :
          /\ IsDict(input[k])
          /\ "priority" \in DOMAIN input[k]
          /\ calls' = << FormatterCall("format_priority_field", k, TRUE,
                            Formatted(<< format_priority_field(input[k].priority) >>)) >>
    /\ UNCHANGED << restVars, input >>

\* formatter.validate_required_fields(input[k])
ValidateRequiredFields ==
    /\ calls = << >>
    /\ \E k \in 1..Len(input) :
          calls' = << FormatterCall("validate_required_fields", k,
                                    validate_required_fields(input[k]),
                                    Formatted(<< >>)) >>
    /\ UNCHANGED << restVars, input >>

\* client._validate_record_format(input[k]), on a dict
ValidateRecordFormat ==
    /\ calls = << >>
    /\ \E k \in 1..Len(input) :
          /\ IsDict(input[k])
          /\ calls' = << FormatterCall("_validate_record_format", k,
                                       _validate_record_format(input[k]),
                                       Formatted(<< >>)) >>
    /\ UNCHANGED << restVars, input >>

\* formatter.batch_format_records(input)
BatchFormatRecords ==
    /\ calls = << >>
    /\ calls' = << FormatterCall("batch_format_records", 0, TRUE,
                                 Formatted(batch_format_records(input))) >>
    /\ UNCHANGED << restVars, input >>

NextFormatter ==
    \/ FormatTestCaseForLark
    \/ FormatPriorityField
    \/ ValidateRequiredFields
    \/ ValidateRecordFormat
    \/ BatchFormatRecords

SpecFormatter == InitFormatter /\ [][NextFormatter]_vars

----------------------------------------------------------------------------
(* Properties of the formatter *)

IsCall(c, op) == c.op = op
Priorities == { High, Medium, Low }

\* the capital of each letter the priorities are written with
CapitalOf ==
    [h |-> "H", i |-> "I", g |-> "G", m |-> "M", e |-> "E", d |-> "D", u |-> "U",
     l |-> "L", o |-> "O", w |-> "W"]
IsSpaces(s) == \A k \in 1..Len(s) : s[k] = " "
SameWord(s, word) ==
    /\ Len(s) = Len(word)
    /\ \A k \in 1..Len(s) : s[k] \in { word[k], CapitalOf[word[k]] }
\* the value reads as the word, in any casing, with white space around it
Reads(v, word) ==
    /\ v.type # "NoneType"
    /\ \E p \in 0..Len(v.text) : \E q \in p..Len(v.text) :
          /\ IsSpaces(SubSeq(v.text, 1, p))
          /\ SameWord(SubSeq(v.text, p + 1, q), word)
          /\ IsSpaces(SubSeq(v.text, q + 1, Len(v.text)))

\* C21: format_priority_field returns High, Medium or Low for every value: High
\* for a value reading "high" and Low for one reading "low" once trimmed and
\* lower-cased, Medium for every other value (None, empty, white space, other
\* words, "medium").
C21_PriorityIsNormalised ==
    \A n \in 1..Len(calls) :
       IsCall(calls[n], "format_priority_field") =>
          LET priority == input[calls[n].at].priority
              returned == calls[n].out[1]
          IN  /\ returned \in Priorities
              /\ returned = High <=> Reads(priority, << "h", "i", "g", "h" >>)
              /\ returned = Low  <=> Reads(priority, << "l", "o", "w" >>)

C21_Witness ==
    /\ Len(calls) = 1
    /\ IsCall(calls[1], "format_priority_field")
    /\ input[calls[1].at].priority = Str(<< " ", "H", "i", "g", "h", " " >>)
    /\ calls[1].out = << High >>

\* the positions of the test cases that pass validate_required_fields
Passing(test_cases) ==
    { k \in 1..Len(test_cases) : validate_required_fields(test_cases[k]) }
\* the j-th of them
NthPassing(test_cases, j) ==
    CHOOSE k \in Passing(test_cases) :
       Cardinality({ m \in Passing(test_cases) : m <= k }) = j

\* C22: batch_format_records returns, without raising, the formatted records
\* of exactly the test cases that pass validate_required_fields, in their
\* order in the list; the empty list when none passes.
C22_BatchKeepsThePassingInOrder ==
    \A n \in 1..Len(calls) :
       IsCall(calls[n], "batch_format_records") =>
          /\ calls[n].raised = None
          /\ Len(calls[n].out) = Cardinality(Passing(input))
          /\ \A j \in 1..Len(calls[n].out) :
                << calls[n].out[j] >> =
                   format_test_case_for_lark(input[NthPassing(input, j)]).out

C22_Witness ==
    /\ Len(calls) = 1
    /\ IsCall(calls[1], "batch_format_records")
    /\ Len(input) = 3
    /\ Passing(input) = {1, 3}
    /\ IsDict(input[2]) /\ "expected_result" \notin DOMAIN input[2]
    /\ input[1] # input[3]
    /\ calls[1].out = format_test_case_for_lark(input[1]).out
                         \o format_test_case_for_lark(input[3]).out

\* a record with exactly the six keys, a priority of the three, and texts
\* other than white space in the four critical fields
IsFormattedRecord(record) ==
    /\ DOMAIN record = RequiredFields
    /\ \A field \in RequiredFields : record[field].type = "str"
    /\ record.priority.text \in Priorities
    /\ \A field \in CriticalFields : strip(record[field].text) # << >>

IsFormatting(c) ==
    IsCall(c, "format_test_case_for_lark") \/ IsCall(c, "batch_format_records")

\* C23: every record format_test_case_for_lark or batch_format_records returns
\* has exactly the six keys, a priority among High, Medium and Low, and a
\* test_case_number, title, steps and expected_result that are not blank.
C23_ReturnedRecordsAreWellFormed ==
    \A n \in 1..Len(calls) :
       IsFormatting(calls[n]) =>
          \A j \in 1..Len(calls[n].out) : IsFormattedRecord(calls[n].out[j])

C23_Witness ==
    /\ Len(calls) = 1
    /\ IsCall(calls[1], "format_test_case_for_lark")
    /\ Len(calls[1].out) = 1
    /\ calls[1].out[1].precondition.text = << >>
    /\ input[calls[1].at].title = Str(<< " ", "a" >>)

\* the text of the value is empty or white space, or the value is None
IsBlank(v) == v.type = "NoneType" \/ strip(v.text) = << >>
AbsentKeys(test_case) == RequiredFields \ DOMAIN test_case
Range(seq) == { seq[k] : k \in 1..Len(seq) }

\* C24: format_test_case_for_lark raises TypeError for a test case that is no
\* dict; for a dict lacking one of the six keys it raises ValidationError
\* naming the keys that are absent; for a dict with the six keys and a blank
\* critical field it raises too and returns no record.
C24_InvalidSingleRecordRaises ==
    \A n \in 1..Len(calls) :
       IsCall(calls[n], "format_test_case_for_lark") =>
          LET test_case == input[calls[n].at]
          IN  /\ ~IsDict(test_case) => calls[n].raised = "TypeError"
              /\ IsDict(test_case) /\ AbsentKeys(test_case) # {} =>
                    /\ calls[n].raised = "ValidationError"
                    /\ Range(calls[n].missing) = AbsentKeys(test_case)
              /\ ( /\ IsDict(test_case)
                   /\ AbsentKeys(test_case) = {}
                   /\ \E field \in CriticalFields : IsBlank(test_case[field]) ) =>
                    /\ calls[n].raised = "ValidationError"
                    /\ calls[n].out = << >>

C24_Witness ==
    /\ Len(calls) = 1
    /\ IsCall(calls[1], "format_test_case_for_lark")
    /\ IsDict(input[calls[1].at])
    /\ AbsentKeys(input[calls[1].at]) = {}
    /\ input[calls[1].at].steps = Blank
    /\ calls[1].raised = "ValidationError"

\* C25: the record format_test_case_for_lark returns carries, under the same
\* key, the string form of the test case's test_case_number, title,
\* precondition, steps and expected_result; only priority may differ.
C25_FormattingKeepsTheTexts ==
    \A n \in 1..Len(calls) :
       ( IsCall(calls[n], "format_test_case_for_lark") /\ calls[n].raised = None ) =>
          /\ Len(calls[n].out) = 1
          /\ \A field \in RequiredFields \ {"priority"} :
                /\ field \in DOMAIN calls[n].out[1]
                /\ calls[n].out[1][field] = Str(input[calls[n].at][field].text)

C25_Witness ==
    /\ Len(calls) = 1
    /\ IsCall(calls[1], "format_test_case_for_lark")
    /\ calls[1].raised = None
    /\ input[calls[1].at].test_case_number = IntValue(<< "7" >>)
    /\ input[calls[1].at].title = Str(<< " ", "a" >>)
    /\ calls[1].out[1].title = Str(<< " ", "a" >>)

\* C26: on every record (a dict) the client's _validate_record_format decides
\* as the formatter's validate_required_fields does, and every record
\* batch_format_records returns passes _validate_record_format.
C26_ClientCheckIsFormatterCheck ==
    \A n \in 1..Len(calls) :
       /\ IsCall(calls[n], "_validate_record_format") =>
             calls[n].ok = validate_required_fields(input[calls[n].at])
       /\ IsCall(calls[n], "batch_format_records") =>
             \A j \in 1..Len(calls[n].out) : _validate_record_format(calls[n].out[j])

C26_Witness ==
    /\ Len(calls) = 1
    /\ IsCall(calls[1], "_validate_record_format")
    /\ AbsentKeys(input[calls[1].at]) = {}
    /\ input[calls[1].at].steps = Blank
    /\ ~calls[1].ok

----------------------------------------------------------------------------
(* The attributes and methods of a SimpleLarkClient *)

\* the attributes __init__ sets, with their values; the logger and the three
\* managers are objects
client ==
    [app_id |-> Str(<< "i", "d" >>), app_secret |-> Str(<< "k", "e", "y" >>),
     logger |-> "object", auth_manager |-> "object", table_manager |-> "object",
     record_manager |-> "object",
     wiki_token |-> wiki_token, table_id |-> table_id, _obj_token |-> _obj_token]

\* the methods of the class
ClientMethods ==
    { "_get_obj_token", "set_table_info", "test_connection", "batch_create_records",
      "_validate_record_format" }

\* the names that resolve on a client; any other raises AttributeError
ClientMembers == DOMAIN client \cup ClientMethods

\* C27: the client keeps a request budget: a fresh client has
\* rate_limit_remaining > 0, never more than rate_limit_max, and the methods
\* that consume it, wait for it and reset it.
C27_ClientKeepsARequestBudget ==
    /\ { "rate_limit_remaining", "rate_limit_max", "_consume_rate_limit",
         "_wait_for_rate_limit", "_reset_rate_limit" } \subseteq ClientMembers
    /\ client.rate_limit_remaining \in 0..client.rate_limit_max
    /\ result.op = "init" => client.rate_limit_remaining > 0

----------------------------------------------------------------------------
(* clean_markdown_content step by step (data_cleaner.py 106-149): the      *)
(* substitutions before the loop, each iteration of the while loop, the    *)
(* return.  calls holds the steps taken on input: an "enter" step with the *)
(* content the loop starts from, a "pass" step per iteration with the      *)
(* content before and after it, and the "return" step.                     *)

MaxLength == 6          \* the longest content the loop is run on

\* contents of emphasis marks and letters
EmphasisTexts == TextsOf({ << "*" >>, << "a" >> }, MaxLength)

InitLoop == Constructed /\ input \in EmphasisTexts

LastStep == calls[Len(calls)]

\* content when the loop is entered
BeforeLoop(content) ==
    sub("_markdown_code_pattern",
        sub("_markdown_code_block_pattern", extract_url_description(content)))

\* one iteration of the loop: bold, then italic
EmphasisPassOf(content) ==
    sub("_markdown_italic_pattern", sub("_markdown_bold_pattern", content))

\* previous_content never updated in the loop
previous_content_initial(steps) == << >>

\* previous_content at the loop test: "" before the first iteration, then
\* the content the latest iteration started from
previous_content(steps) ==
    IF steps[Len(steps)].op = "enter" THEN << >> ELSE steps[Len(steps)].arg

\* "if not content: return ''", else the substitutions before the loop
CleanEnter ==
    /\ calls = << >>
    /\ calls' = IF input = << >>
                THEN << CleanerCall("return", input, << >>, << >>) >>
                ELSE << CleanerCall("enter", input, << >>, BeforeLoop(input)) >>
    /\ UNCHANGED << restVars, input >>

\* "while previous_content != content": one iteration
EmphasisPass ==
    /\ calls # << >>
    /\ LastStep.op # "return"
    /\ previous_content(calls) # LastStep.text
    /\ calls' = Append(calls, CleanerCall("pass", LastStep.text, << >>,
                                          EmphasisPassOf(LastStep.text)))
    /\ UNCHANGED << restVars, input >>

\* the loop test fails: "return content.strip()"
CleanReturn ==
    /\ calls # << >>
    /\ LastStep.op # "return"
    /\ previous_content(calls) = LastStep.text
    /\ calls' = Append(calls, CleanerCall("return", LastStep.text, << >>,
                                          strip(LastStep.text)))
    /\ UNCHANGED << restVars, input >>

NextLoop == CleanEnter \/ EmphasisPass \/ CleanReturn

\* the call runs on: no step that is enabled is put off for ever
SpecLoop ==
    InitLoop /\ [][NextLoop]_vars /\ WF_vars(CleanEnter) /\ WF_vars(EmphasisPass)
                 /\ WF_vars(CleanReturn)

Passes == { n \in 1..Len(calls) : calls[n].op = "pass" }
Returned == calls # << >> /\ LastStep.op = "return"

\* C28: the while loop of clean_markdown_content ends for every content: an
\* iteration that changes the content makes it shorter, the iterations are at
\* most the length of the content the loop starts from plus one, and the
\* call returns.
C28_EmphasisLoopEnds ==
    /\ [](\A n \in Passes :
             /\ calls[n].text # calls[n].arg => Len(calls[n].text) < Len(calls[n].arg)
             /\ Cardinality(Passes) <= Len(calls[1].text) + 1)
    /\ <>Returned

C28_Witness ==
    /\ Returned
    /\ Cardinality(Passes) = 3
    /\ input = calls[1].text
    /\ calls[2].text # calls[2].arg
    /\ calls[3].text # calls[3].arg
    /\ LastStep.text = clean_markdown_content(input)

----------------------------------------------------------------------------
(* Properties of the client's table information *)

\* C29: whatever calls were made on the client, a handle it holds is the
\* handle of its current wiki_token.  A set_table_info that fails to resolve
\* its wiki token leaves the new wiki_token and table_id and no handle; one
\* that raises ValueError leaves the three fields as they were.
C29_HandleBelongsToCurrentWiki ==
    /\ [](~Empty(_obj_token) =>
            (~Empty(wiki_token) /\ _obj_token = ObjTokenOf(wiki_token)))
    /\ [][ (result'.op = "set_table_info" /\ now' = now) =>
              /\ result'.raised = "ValueError" => UNCHANGED clientVars
              /\ (result'.raised = None /\ ~result'.ok) =>
                    /\ wiki_token' = result'.wiki
                    /\ table_id' = result'.table
                    /\ _obj_token' = None ]_vars

C29_Witness ==
    /\ result.op = "set_table_info"
    /\ result.wiki = "w2"
    /\ result.raised = None
    /\ ~result.ok
    /\ wiki_token = "w2"
    /\ _obj_token = None
    /\ DOMAIN _obj_tokens = {"w1"}

----------------------------------------------------------------------------
(* multi_file_conversion_flow (src/main.py 38-185).  input is              *)
(* xml_file_paths: a file has a path that validate_file_path accepts or    *)
(* not, parses or makes parse_xml_file raise, and holds test cases, each a *)
(* reference k to the cleaned case RecordOf(k).  flow holds the position   *)
(* in the function, stats, all_lark_records, the number of files the loop  *)
(* went through, the lists handed to client.batch_create_records, and the  *)
(* boolean returned.                                                       *)

MaxFiles == 3           \* the longest xml_file_paths

CaseLists == { << >>, << 0 >>, << 1 >>, << 2, 0, 3 >> }
FlowFiles ==
    { [valid_path |-> FALSE, parses |-> FALSE, cases |-> << >>],
      [valid_path |-> TRUE,  parses |-> FALSE, cases |-> << >>] }
    \cup { [valid_path |-> TRUE, parses |-> TRUE, cases |-> cases] : cases \in CaseLists }

InitFlow == Constructed /\ input \in ListsOf(FlowFiles, MaxFiles)

\* the cleaned case k passes the formatter's validation
PassesFormatter(k) == validate_required_fields(RecordOf(k))

\* the loop index after a file, were the loop left at the first failed file
NextFileStopping(index, failed, total) == IF failed THEN total ELSE index + 1
\* the loop index after a file
NextFile(index, failed, total) == index + 1

\* the function up to the loop: stats, the client, set_table_info
FlowStart ==
    /\ flow = NoFlow
    /\ \E table \in {"set", "unresolved", "ValueError"} :
          flow' = [pc |-> IF table = "set" THEN "files" ELSE "done",
                   table_set |-> (table = "set"),
                   stats |-> [total_files |-> Len(input), processed_files |-> 0,
                              failed_files |-> 0, total_test_cases |-> 0,
                              file_results |-> << >>],
                   all_lark_records |-> << >>,
                   index |-> 0,
                   uploads |-> << >>,
                   returned |-> FALSE]
    /\ UNCHANGED << now, authVars, _obj_tokens, uploadVars, threadVars, input, calls >>

\* one iteration of the loop over xml_file_paths
FlowFile ==
    /\ flow.pc = "files"
    /\ flow.index < Len(input)
    /\ LET file == input[flow.index + 1]
           failed == ~file.valid_path \/ ~file.parses
           lark_records == SelectSeq(file.cases, PassesFormatter)
           file_result ==
              IF failed
              THEN [file |-> flow.index + 1, test_cases |-> 0, successful_records |-> 0,
                    failed_records |-> 0, success |-> FALSE,
                    error |-> IF file.valid_path THEN "parse" ELSE "ValueError"]
              ELSE [file |-> flow.index + 1, test_cases |-> Len(file.cases),
                    successful_records |-> Len(lark_records),
                    failed_records |-> Len(file.cases) - Len(lark_records),
                    success |-> TRUE, error |-> None]
       IN  flow' = [flow EXCEPT
                      !.index = NextFile(flow.index, failed, Len(input)),
                      !.all_lark_records = IF failed THEN @ ELSE @ \o lark_records,
                      !.stats.processed_files = IF failed THEN @ ELSE @ + 1,
                      !.stats.failed_files = IF failed THEN @ + 1 ELSE @,
                      !.stats.total_test_cases =
                          IF failed THEN @ ELSE @ + Len(file.cases),
                      !.stats.file_results = Append(@, file_result)]
    /\ UNCHANGED << now, authVars, _obj_tokens, uploadVars, threadVars, input, calls >>

\* after the loop: the upload of all_lark_records, if there is any record
FlowUpload ==
    /\ flow.pc = "files"
    /\ flow.index >= Len(input)
    /\ IF flow.all_lark_records = << >>
       THEN flow' = [flow EXCEPT !.pc = "done", !.returned = FALSE]
       ELSE \E outcome \in {"returned", "LarkAPIError"} :
               flow' = [flow EXCEPT !.pc = "done",
                                    !.uploads = Append(@, flow.all_lark_records),
                                    !.returned = (outcome = "returned")]
    /\ UNCHANGED << now, authVars, _obj_tokens, uploadVars, threadVars, input, calls >>

NextFlow == FlowStart \/ FlowFile \/ FlowUpload

SpecFlow == InitFlow /\ [][NextFlow]_vars

----------------------------------------------------------------------------
(* Properties of the flow *)

FileOk(file) == file.valid_path /\ file.parses
\* the records of the files that parse, in file order
RecordsOfFiles ==
    Flatten([ j \in 1..Len(input) |->
                IF FileOk(input[j]) THEN SelectSeq(input[j].cases, PassesFormatter)
                ELSE << >> ])
FilesDone == flow.pc = "done" \/ (flow.pc = "files" /\ flow.index >= Len(input))

\* C30: once the table is set, the files are handled once each, in order, a
\* failed file does not stop the others: processed_files + failed_files is the
\* length of file_results at every loop boundary and total_files after the
\* loop; at most one upload is issued, after the loop, with the records of
\* the files that succeeded, in file order, and none when there is no record.
C30_EveryFileHandledOneUpload ==
    (flow.pc # "none" /\ flow.table_set) =>
       /\ flow.stats.processed_files + flow.stats.failed_files
             = Len(flow.stats.file_results)
       /\ \A j \in 1..Len(flow.stats.file_results) :
             /\ flow.stats.file_results[j].file = j
             /\ flow.stats.file_results[j].success = FileOk(input[j])
       /\ FilesDone =>
             /\ Len(flow.stats.file_results) = flow.stats.total_files
             /\ flow.stats.total_files = Len(input)
       /\ Len(flow.uploads) <= 1
       /\ flow.uploads # << >> =>
             /\ flow.pc = "done"
             /\ flow.uploads[1] = RecordsOfFiles
       /\ flow.pc = "done" => (flow.uploads = << >> <=> RecordsOfFiles = << >>)

C30_Witness ==
    /\ flow.pc = "done"
    /\ Len(input) = 3
    /\ FileOk(input[1]) /\ ~FileOk(input[2]) /\ FileOk(input[3])
    /\ input[1].cases = << 2, 0, 3 >>
    /\ input[3].cases = << 1 >>
    /\ flow.stats.processed_files = 2
    /\ flow.stats.failed_files = 1
    /\ flow.uploads = << << 2, 3, 1 >> >>

====
